---- MODULE Spec2Model ----
(***************************************************************************)
(* CLEO super-droplet model: the gridbox-index update of the cartesian     *)
(* motion (cartesianmotion.cpp), the transport bookkeeping                 *)
(* (run_coupledmodel.cpp), the creation of super-droplets                  *)
(* (createsupers.hpp) and the timestepping of the coupled model.           *)
(*                                                                         *)
(* Coordinates are integers (one unit is the smallest distance the model   *)
(* resolves); a gridbox is GbxWidth units wide in every direction.         *)
(* Directions are numbered as in the code: 3 (z), 1 (x), 2 (y).            *)
(***************************************************************************)
EXTENDS Integers, Sequences, FiniteSets, TLC

VARIABLES
  config,    \* configuration: domain, boundary policies, intervals, kinds
  initdata,  \* initial conditions of the super-droplets (FetchInitData)
  supers,    \* the global array of super-droplets
  spans,     \* gridbox index -> <<begin, end>>, half-open, 0-based
  winds,     \* gridbox index -> face velocities <<wvel, uvel, vvel>>
  t_mdl,     \* the current tick
  pc,        \* position of the driver (or of the function-level check)
  phases,    \* phases executed so far within the current tick
  call       \* arguments and result of one call of a gridbox-index function

vars == <<config, initdata, supers, spans, winds, t_mdl, pc, phases, call>>

----------------------------------------------------------------------------
(* Bounds of the model *)

GbxWidth == 2     \* width of a gridbox in every direction
MaxBeyond == 3    \* how far outside its gridbox a coordinate is drawn

(* LIMITVALUES::uintmax, the outside-domain gridbox index: the largest     *)
(* value of the index type (here of the 31 bits the model's integers have) *)
uintmax == 2147483647

(* bounds of the outside-domain index: numeric limits, beyond any coordinate *)
CoordLimit == 1000000

----------------------------------------------------------------------------
(* Cartesian gridbox maps. Direction 3 varies fastest in the gridbox index. *)

get_ndim(d) == config.ndims[d + 1]   \* d = 0 (z), 1 (x), 2 (y)

ngbxs == get_ndim(0) * get_ndim(1) * get_ndim(2)

Gbxs == 0 .. (ngbxs - 1)

increment3 == 1
increment1 == get_ndim(0)
increment2 == get_ndim(0) * get_ndim(1)

at_cartesiandomainboundary(idx, increment, ndim) ==
  (idx \div increment) % ndim = 0

kbounds(idx, increment, ndim) ==
  IF idx = uintmax
  THEN <<-CoordLimit, CoordLimit>>
  ELSE LET k == (idx \div increment) % ndim
       IN <<k * GbxWidth, (k + 1) * GbxWidth>>

kbackward(idx, increment, ndim, periodic) ==
  IF idx = uintmax THEN uintmax
  ELSE IF at_cartesiandomainboundary(idx, increment, ndim)
  THEN (IF periodic THEN idx + (ndim - 1) * increment ELSE uintmax)
  ELSE idx - increment

kforward(idx, increment, ndim, periodic) ==
  IF idx = uintmax THEN uintmax
  ELSE IF at_cartesiandomainboundary(idx + increment, increment, ndim)
  THEN (IF periodic THEN idx - (ndim - 1) * increment ELSE uintmax)
  ELSE idx + increment

coord3bounds(idx) == kbounds(idx, increment3, get_ndim(0))
coord1bounds(idx) == kbounds(idx, increment1, get_ndim(1))
coord2bounds(idx) == kbounds(idx, increment2, get_ndim(2))

coord3backward(idx) == kbackward(idx, increment3, get_ndim(0), config.periodic[1])
coord3forward(idx) == kforward(idx, increment3, get_ndim(0), config.periodic[1])
coord1backward(idx) == kbackward(idx, increment1, get_ndim(1), config.periodic[2])
coord1forward(idx) == kforward(idx, increment1, get_ndim(1), config.periodic[2])
coord2backward(idx) == kbackward(idx, increment2, get_ndim(2), config.periodic[3])
coord2forward(idx) == kforward(idx, increment2, get_ndim(2), config.periodic[3])

(* boundary policy of a domain face: a periodic face wraps the coordinate   *)
(* by lim1 - lim2, a finite (outflow) face leaves the coordinate alone.     *)
coord3_beyondz(coord3, lim1, lim2) ==
  IF config.periodic[1] THEN coord3 + lim1 - lim2 ELSE coord3

coord1_beyondx(coord1, lim1, lim2) ==
  IF config.periodic[2] THEN coord1 + lim1 - lim2 ELSE coord1

coord2_beyondy(coord2, lim1, lim2) ==
  IF config.periodic[3] THEN coord2 + lim1 - lim2 ELSE coord2

----------------------------------------------------------------------------
(* cartesianmotion.cpp: update of a super-droplet's gridbox index. A       *)
(* function that changes the super-droplet returns the changed copy.       *)

check_inbounds_or_outdomain_AndBounds(idx, bounds, coord) ==
  LET bad_gbxindex == (idx # uintmax) /\
                      ((coord < bounds[1]) /\ (coord >= bounds[2]))
  IN ~bad_gbxindex

check_inbounds_or_outdomain(idx, bounds, coord) ==
  LET bad_gbxindex == (idx # uintmax) /\
                      ((coord < bounds[1]) \/ (coord >= bounds[2]))
  IN ~bad_gbxindex          \* TRUE: the assertion passes

flag_sdgbxindex_GtUpper(idx, bounds, coord) ==
  IF idx = uintmax THEN 0
  ELSE IF coord < bounds[1] THEN 1
  ELSE IF coord > bounds[2] THEN 2
  ELSE 0

flag_sdgbxindex(idx, bounds, coord) ==
  IF idx = uintmax THEN 0
  ELSE IF coord < bounds[1] THEN 1
  ELSE IF coord >= bounds[2] THEN 2
  ELSE 0

backwards_coord3idx_NoWrap(idx, drop) ==
  [idx |-> coord3backward(idx), drop |-> drop]

backwards_coord3idx(idx, drop) ==
  LET nghbr == coord3backward(idx) IN
  IF at_cartesiandomainboundary(idx, 1, get_ndim(0))
  THEN LET lim1 == coord3bounds(nghbr)[2]
           lim2 == coord3bounds(idx)[1]
       IN [idx |-> nghbr,
           drop |-> [drop EXCEPT !.coord3 = coord3_beyondz(@, lim1, lim2)]]
  ELSE [idx |-> nghbr, drop |-> drop]

forwards_coord3idx(idx, drop) ==
  LET nghbr == coord3forward(idx) IN
  IF at_cartesiandomainboundary(idx + 1, 1, get_ndim(0))
  THEN LET lim1 == coord3bounds(nghbr)[1]
           lim2 == coord3bounds(idx)[2]
       IN [idx |-> nghbr,
           drop |-> [drop EXCEPT !.coord3 = coord3_beyondz(@, lim1, lim2)]]
  ELSE [idx |-> nghbr, drop |-> drop]

backwards_coord1idx(idx, drop) ==
  LET nghbr == coord1backward(idx) IN
  IF at_cartesiandomainboundary(idx, increment1, get_ndim(1))
  THEN LET lim1 == coord1bounds(nghbr)[2]
           lim2 == coord1bounds(idx)[1]
       IN [idx |-> nghbr,
           drop |-> [drop EXCEPT !.coord1 = coord1_beyondx(@, lim1, lim2)]]
  ELSE [idx |-> nghbr, drop |-> drop]

forwards_coord1idx(idx, drop) ==
  LET nghbr == coord1forward(idx) IN
  IF at_cartesiandomainboundary(idx + increment1, increment1, get_ndim(1))
  THEN LET lim1 == coord1bounds(nghbr)[1]
           lim2 == coord1bounds(idx)[2]
       IN [idx |-> nghbr,
           drop |-> [drop EXCEPT !.coord1 = coord1_beyondx(@, lim1, lim2)]]
  ELSE [idx |-> nghbr, drop |-> drop]

backwards_coord2idx(idx, drop) ==
  LET nghbr == coord2backward(idx) IN
  IF at_cartesiandomainboundary(idx, increment2, get_ndim(2))
  THEN LET lim1 == coord2bounds(nghbr)[2]
           lim2 == coord2bounds(idx)[1]
       IN [idx |-> nghbr,
           drop |-> [drop EXCEPT !.coord2 = coord2_beyondy(@, lim1, lim2)]]
  ELSE [idx |-> nghbr, drop |-> drop]

forwards_coord2idx(idx, drop) ==
  LET nghbr == coord2forward(idx) IN
  IF at_cartesiandomainboundary(idx + increment2, increment2, get_ndim(2))
  THEN LET lim1 == coord2bounds(nghbr)[1]
           lim2 == coord2bounds(idx)[2]
       IN [idx |-> nghbr,
           drop |-> [drop EXCEPT !.coord2 = coord2_beyondy(@, lim1, lim2)]]
  ELSE [idx |-> nghbr, drop |-> drop]

update_if_coord3nghbr(idx, drop) ==
  LET flag == flag_sdgbxindex(idx, coord3bounds(idx), drop.coord3) IN
  CASE flag = 1 -> backwards_coord3idx(idx, drop)
    [] flag = 2 -> forwards_coord3idx(idx, drop)
    [] OTHER    -> [idx |-> idx, drop |-> drop]

update_if_coord1nghbr(idx, drop) ==
  LET flag == flag_sdgbxindex(idx, coord1bounds(idx), drop.coord1) IN
  CASE flag = 1 -> backwards_coord1idx(idx, drop)
    [] flag = 2 -> forwards_coord1idx(idx, drop)
    [] OTHER    -> [idx |-> idx, drop |-> drop]

update_if_coord2nghbr(idx, drop) ==
  LET flag == flag_sdgbxindex(idx, coord2bounds(idx), drop.coord2) IN
  CASE flag = 1 -> backwards_coord2idx(idx, drop)
    [] flag = 2 -> forwards_coord2idx(idx, drop)
    [] OTHER    -> [idx |-> idx, drop |-> drop]

update_superdrop_gbxindex_FromStart(gbxindex, drop) ==
  LET r3 == update_if_coord3nghbr(gbxindex, drop)
      ok3 == check_inbounds_or_outdomain(r3.idx, coord3bounds(r3.idx),
                                         r3.drop.coord3)
      r1 == update_if_coord1nghbr(gbxindex, r3.drop)
      ok1 == check_inbounds_or_outdomain(r1.idx, coord1bounds(r1.idx),
                                         r1.drop.coord1)
      r2 == update_if_coord2nghbr(r1.idx, r1.drop)
      ok2 == check_inbounds_or_outdomain(r2.idx, coord2bounds(r2.idx),
                                         r2.drop.coord2)
  IN IF ~ok3 THEN [drop |-> r3.drop, err |-> TRUE]
     ELSE IF ~ok1 THEN [drop |-> r1.drop, err |-> TRUE]
     ELSE IF ~ok2 THEN [drop |-> r2.drop, err |-> TRUE]
     ELSE [drop |-> [r2.drop EXCEPT !.sdgbxindex = r2.idx], err |-> FALSE]

(* The checks are assertions: a failed assertion ends the function (err)    *)
(* before set_sdgbxindex is reached.                                       *)
update_superdrop_gbxindex(gbxindex, drop) ==
  LET r3 == update_if_coord3nghbr(gbxindex, drop)
      ok3 == check_inbounds_or_outdomain(r3.idx, coord3bounds(r3.idx),
                                         r3.drop.coord3)
      r1 == update_if_coord1nghbr(r3.idx, r3.drop)
      ok1 == check_inbounds_or_outdomain(r1.idx, coord1bounds(r1.idx),
                                         r1.drop.coord1)
      r2 == update_if_coord2nghbr(r1.idx, r1.drop)
      ok2 == check_inbounds_or_outdomain(r2.idx, coord2bounds(r2.idx),
                                         r2.drop.coord2)
  IN IF ~ok3 THEN [drop |-> r3.drop, err |-> TRUE]
     ELSE IF ~ok1 THEN [drop |-> r1.drop, err |-> TRUE]
     ELSE IF ~ok2 THEN [drop |-> r2.drop, err |-> TRUE]
     ELSE [drop |-> [r2.drop EXCEPT !.sdgbxindex = r2.idx], err |-> FALSE]

----------------------------------------------------------------------------
(* Specification of single calls of the gridbox-index functions: the       *)
(* configuration, the gridbox index and the super-droplet are drawn from   *)
(* bounded sets, then one function is applied.                             *)

NoCall == [stage |-> "none"]

Superdrop(sdgbxindex, coord3, coord1, coord2, radius, xi, id) ==
  [sdgbxindex |-> sdgbxindex, coord3 |-> coord3, coord1 |-> coord1,
   coord2 |-> coord2, radius |-> radius, xi |-> xi, id |-> id]

DomainDims == <<2, 2, 1>>

Policies == {<<TRUE, TRUE, TRUE>>, <<FALSE, TRUE, TRUE>>, <<FALSE, FALSE, FALSE>>}

BaseConfig(periodic) ==
  [ndims |-> DomainDims, periodic |-> periodic,
   couplstep |-> 1, motionstep |-> 1, microstep |-> 1, obsstep |-> 1,
   t_end |-> 0, motion |-> "predcorr", dyn |-> "null"]

CoordsAround(bounds) ==
  IF bounds[1] = -CoordLimit
  THEN (0 - MaxBeyond) .. (GbxWidth - 1 + MaxBeyond)
  ELSE (bounds[1] - MaxBeyond) .. (bounds[2] - 1 + MaxBeyond)

InitUpdate ==
  /\ \E periodic \in Policies : config = BaseConfig(periodic)
  /\ initdata = <<>>
  /\ supers = <<>>
  /\ spans = <<>>
  /\ winds = <<>>
  /\ t_mdl = 0
  /\ pc = "call"
  /\ phases = <<>>
  /\ \E idx \in Gbxs \cup {uintmax} :
       \E c3 \in CoordsAround(coord3bounds(idx)) :
         \E c1 \in CoordsAround(coord1bounds(idx)) :
           \E c2 \in CoordsAround(coord2bounds(idx)) :
             call = [stage |-> "in", idx |-> idx,
                     drop |-> Superdrop(idx, c3, c1, c2, 1, 1, 0)]

Returned(op, res) ==
  /\ pc = "call"
  /\ pc' = "returned"
  /\ call' = [stage |-> op, idx |-> call.idx, drop |-> call.drop, res |-> res]
  /\ UNCHANGED <<config, initdata, supers, spans, winds, t_mdl, phases>>

CallCoord3 == Returned("coord3", update_if_coord3nghbr(call.idx, call.drop))

CallCoord1 == Returned("coord1", update_if_coord1nghbr(call.idx, call.drop))

CallCoord2 == Returned("coord2", update_if_coord2nghbr(call.idx, call.drop))

CallUpdate == Returned("update", update_superdrop_gbxindex(call.idx, call.drop))

NextUpdate == CallCoord3 \/ CallCoord1 \/ CallCoord2 \/ CallUpdate

SpecUpdate == InitUpdate /\ [][NextUpdate]_vars

----------------------------------------------------------------------------
(* createsupers.hpp: creation of the super-droplets from the initial        *)
(* conditions.                                                              *)

GenSuperdrop_SameId(kk) ==
  Superdrop(initdata[kk].sdgbxindex, initdata[kk].coord3,
            initdata[kk].coord1, initdata[kk].coord2,
            initdata[kk].radius, initdata[kk].xi, 0)

GenSuperdrop(kk) ==      \* kk counts from 1 here, ids from 0 (sdIdGen->next())
  Superdrop(initdata[kk].sdgbxindex, initdata[kk].coord3,
            initdata[kk].coord1, initdata[kk].coord2,
            initdata[kk].radius, initdata[kk].xi, kk - 1)

initialise_supers == [kk \in 1 .. Len(initdata) |-> GenSuperdrop(kk)]

sort_supers(s) == s      \* "sort the view": the body returns supers as given

CreateSupers == sort_supers(initialise_supers)

----------------------------------------------------------------------------
(* Transport bookkeeping: run_coupledmodel.cpp with the sort and the spans  *)
(* of superdrops_with_gridboxes.cpp and gridbox.cpp.                        *)

SortsBefore(a, b) ==
  \/ a.sdgbxindex < b.sdgbxindex
  \/ (a.sdgbxindex = b.sdgbxindex /\ a.id < b.id)

RECURSIVE InsertSorted(_, _)
InsertSorted(s, x) ==
  IF s = <<>> THEN <<x>>
  ELSE IF SortsBefore(x, Head(s)) THEN <<x>> \o s
  ELSE <<Head(s)>> \o InsertSorted(Tail(s), x)

RECURSIVE sort_superdrops_via_gridboxindex(_)
sort_superdrops_via_gridboxindex(s) ==
  IF s = <<>> THEN <<>>
  ELSE InsertSorted(sort_superdrops_via_gridboxindex(Tail(s)), Head(s))

(* binary searches of the array for a gridbox index, positions 0-based *)
RECURSIVE lower_bound(_, _, _, _)
lower_bound(s, first, len, g) ==
  IF len = 0 THEN first
  ELSE LET half == len \div 2
           mid == first + half
       IN IF s[mid + 1].sdgbxindex < g
          THEN lower_bound(s, mid + 1, len - half - 1, g)
          ELSE lower_bound(s, first, half, g)

RECURSIVE upper_bound(_, _, _, _)
upper_bound(s, first, len, g) ==
  IF len = 0 THEN first
  ELSE LET half == len \div 2
           mid == first + half
       IN IF ~(g < s[mid + 1].sdgbxindex)
          THEN upper_bound(s, mid + 1, len - half - 1, g)
          ELSE upper_bound(s, first, half, g)

set_gridboxes_superdropletspan(s) ==
  [g \in Gbxs |-> <<lower_bound(s, 0, Len(s), g), upper_bound(s, 0, Len(s), g)>>]

(* the super-droplets visited by "for gbx in gridboxes, for SD in span":    *)
(* <<gridbox index, position>>, in the order of the loops                   *)
RECURSIVE VisitsFrom(_, _, _)
VisitsFrom(sp, g, k) ==
  IF g >= ngbxs THEN <<>>
  ELSE IF k >= sp[g][2]
  THEN (IF g + 1 < ngbxs THEN VisitsFrom(sp, g + 1, sp[g + 1][1]) ELSE <<>>)
  ELSE <<<<g, k>>>> \o VisitsFrom(sp, g, k + 1)

Visits(sp) == VisitsFrom(sp, 0, sp[0][1])

sdgbxindex_to_neighbour(drop) == update_superdrop_gbxindex(drop.sdgbxindex, drop)

RECURSIVE ChangeIndexes(_, _)
ChangeIndexes(s, visits) ==
  IF visits = <<>> THEN [supers |-> s, err |-> FALSE]
  ELSE LET k == Head(visits)[2] + 1
           r == sdgbxindex_to_neighbour(s[k])
       IN IF r.err THEN [supers |-> [s EXCEPT ![k] = r.drop], err |-> TRUE]
          ELSE ChangeIndexes([s EXCEPT ![k] = r.drop], Tail(visits))

change_superdroplets_gridboxindex(s, sp) == ChangeIndexes(s, Visits(sp))

exchange_superdroplets_between_gridboxes_NoSort(s, sp) ==
  LET changed == change_superdroplets_gridboxindex(s, sp) IN
  IF changed.err THEN [supers |-> changed.supers, spans |-> sp, err |-> TRUE]
  ELSE [supers |-> changed.supers,
        spans |-> set_gridboxes_superdropletspan(changed.supers),
        err |-> FALSE]

exchange_superdroplets_between_gridboxes_NoSpans(s, sp) ==
  LET changed == change_superdroplets_gridboxindex(s, sp) IN
  IF changed.err THEN [supers |-> changed.supers, spans |-> sp, err |-> TRUE]
  ELSE [supers |-> sort_superdrops_via_gridboxindex(changed.supers),
        spans |-> sp, err |-> FALSE]

exchange_superdroplets_between_gridboxes(s, sp) ==
  LET changed == change_superdroplets_gridboxindex(s, sp) IN
  IF changed.err THEN [supers |-> changed.supers, spans |-> sp, err |-> TRUE]
  ELSE LET sorted == sort_superdrops_via_gridboxindex(changed.supers)
       IN [supers |-> sorted,
           spans |-> set_gridboxes_superdropletspan(sorted),
           err |-> FALSE]

----------------------------------------------------------------------------
(* Motion of the super-droplets: predictor-corrector with the face          *)
(* velocities of the gridbox, then the terminal velocity in direction 3.    *)

MaxRadius == 2    \* radii are 1 .. MaxRadius

interpolate(faces, bounds, coord) ==
  faces[1] + ((faces[2] - faces[1]) * (coord - bounds[1])) \div (bounds[2] - bounds[1])

predcorr(faces, bounds, coord, delt) ==
  LET vel == interpolate(faces, bounds, coord)
      coordstar == coord + vel * delt
      velstar == interpolate(faces, bounds, coordstar)
  IN coord + ((vel + velstar) * delt) \div 2

terminal_velocity(radius) == radius - 1

PredCorrMotion_update_superdrop_coords(g, drop) ==
  LET delt == config.motionstep IN
  [drop EXCEPT
     !.coord3 = predcorr(winds[g][1], coord3bounds(g), @, delt)
                - terminal_velocity(drop.radius) * delt,
     !.coord1 = predcorr(winds[g][2], coord1bounds(g), @, delt),
     !.coord2 = predcorr(winds[g][3], coord2bounds(g), @, delt)]

NullMotion_update_superdrop_coords(g, drop) == drop

update_superdrop_coords(g, drop) ==
  IF config.motion = "null"
  THEN NullMotion_update_superdrop_coords(g, drop)
  ELSE PredCorrMotion_update_superdrop_coords(g, drop)

RECURSIVE MoveVisited(_, _)
MoveVisited(s, visits) ==
  IF visits = <<>> THEN s
  ELSE LET g == Head(visits)[1]
           k == Head(visits)[2] + 1
       IN MoveVisited([s EXCEPT ![k] = update_superdrop_coords(g, s[k])],
                      Tail(visits))

move_superdrops(s, sp) == MoveVisited(s, Visits(sp))

----------------------------------------------------------------------------
(* Microphysics on the super-droplets of each gridbox's span: condensation  *)
(* changes the radius, a collision-coalescence event of a pair of unequal   *)
(* multiplicities changes the multiplicity.                                 *)

condensation(drop, growth) ==
  LET r == drop.radius + growth IN
  [drop EXCEPT !.radius = IF r < 1 THEN 1 ELSE IF r > MaxRadius THEN MaxRadius ELSE r]

RECURSIVE CondenseVisited(_, _, _)
CondenseVisited(s, visits, growth) ==
  IF visits = <<>> THEN s
  ELSE LET k == Head(visits)[2] + 1
       IN CondenseVisited([s EXCEPT ![k] = condensation(s[k], growth)],
                          Tail(visits), growth)

(* pairs (0,1), (2,3), ... of a span; gamma = 1 *)
RECURSIVE CollidePairs(_, _, _)
CollidePairs(s, k, end) ==
  IF k + 1 >= end THEN s
  ELSE LET a == IF s[k + 1].xi >= s[k + 2].xi THEN k + 1 ELSE k + 2
           b == IF a = k + 1 THEN k + 2 ELSE k + 1
           after == IF s[a].xi > s[b].xi
                    THEN [s EXCEPT ![a].xi = @ - s[b].xi,
                                   ![b].radius = IF s[a].radius > @
                                                 THEN s[a].radius ELSE @]
                    ELSE s
       IN CollidePairs(after, k + 2, end)

RECURSIVE CollideGbxs(_, _, _)
CollideGbxs(s, sp, g) ==
  IF g >= ngbxs THEN s
  ELSE CollideGbxs(CollidePairs(s, sp[g][1], sp[g][2]), sp, g + 1)

microphysics(s, sp, growth, collide) ==
  LET condensed == CondenseVisited(s, Visits(sp), growth)
  IN IF collide THEN CollideGbxs(condensed, sp, 0) ELSE condensed

----------------------------------------------------------------------------
(* Timestepping: which phases are due at a tick and the next tick.          *)

on_step_Always(interval, t) == TRUE

on_step(interval, t) == t % interval = 0

next_step(interval, t) == ((t \div interval) + 1) * interval

NullMotion_next_step_Zero(t) == 0

NullMotion_next_step(t) == uintmax

NullMotion_on_step_Always(t) == TRUE

NullMotion_on_step(t) == FALSE

motion_next_step(t) ==
  IF config.motion = "null" THEN NullMotion_next_step(t)
  ELSE next_step(config.motionstep, t)

motion_on_step(t) ==
  IF config.motion = "null" THEN NullMotion_on_step(t)
  ELSE on_step(config.motionstep, t)

Min(S) == CHOOSE m \in S : \A n \in S : m <= n

next_due(t) ==
  Min({next_step(config.couplstep, t), next_step(config.microstep, t),
       motion_next_step(t), next_step(config.obsstep, t)})

----------------------------------------------------------------------------
(* Gridbox velocities: null initial conditions, and fields received from    *)
(* the dynamics (one velocity per direction, the same on all faces).        *)

InitGbxsNull_wvel == [g \in Gbxs |-> <<0, 0>>]
InitGbxsNull_uvel == [g \in Gbxs |-> <<0, 0>>]
InitGbxsNull_vvel == [g \in Gbxs |-> <<0, 0>>]

InitGbxsNull == [g \in Gbxs |->
                   <<InitGbxsNull_wvel[g], InitGbxsNull_uvel[g], InitGbxsNull_vvel[g]>>]

WindFields == {<<0, 0, 0>>, <<1, 0, 0>>, <<-1, 0, 0>>, <<0, 1, 0>>, <<0, 0, 1>>}

UniformWinds(f) == [g \in Gbxs |-> <<<<f[1], f[1]>>, <<f[2], f[2]>>, <<f[3], f[3]>>>>]

(* NullDynComms::receive_dynamics does nothing; a provider of dynamics      *)
(* sets the velocities of the gridboxes.                                    *)
receive_dynamics ==
  IF config.dyn = "null" THEN {winds}
  ELSE {UniformWinds(f) : f \in WindFields}

----------------------------------------------------------------------------
(* The driver: creation, then at every tick the phases in their order.      *)

NSupers == 2      \* number of super-droplets
TEnd == 2         \* last tick of a run
Growths == {0, 1}

Create ==
  /\ pc = "create"
  /\ supers' = CreateSupers
  /\ spans' = set_gridboxes_superdropletspan(supers')
  /\ winds' = InitGbxsNull
  /\ pc' = "receive"
  /\ UNCHANGED <<config, initdata, t_mdl, phases, call>>

Receive ==
  /\ pc = "receive"
  /\ phases' = IF on_step(config.couplstep, t_mdl)
               THEN Append(phases, "receive") ELSE phases
  /\ winds' \in IF on_step(config.couplstep, t_mdl)
                THEN receive_dynamics ELSE {winds}
  /\ pc' = "micro"
  /\ UNCHANGED <<config, initdata, supers, spans, t_mdl, call>>

Microphysics ==
  /\ pc = "micro"
  /\ phases' = IF on_step(config.microstep, t_mdl)
               THEN Append(phases, "micro") ELSE phases
  /\ supers' \in IF on_step(config.microstep, t_mdl)
                 THEN {microphysics(supers, spans, growth, collide) :
                         growth \in Growths, collide \in BOOLEAN}
                 ELSE {supers}
  /\ pc' = "motion"
  /\ UNCHANGED <<config, initdata, spans, winds, t_mdl, call>>

Motion ==
  /\ pc = "motion"
  /\ IF motion_on_step(t_mdl)
     THEN \E exchanged \in {exchange_superdroplets_between_gridboxes(
                                move_superdrops(supers, spans), spans)} :
            /\ supers' = exchanged.supers
            /\ spans' = exchanged.spans
            /\ phases' = Append(phases, "motion")
            /\ pc' = IF exchanged.err THEN "error" ELSE "send"
     ELSE /\ pc' = "send"
          /\ UNCHANGED <<supers, spans, phases>>
  /\ UNCHANGED <<config, initdata, winds, t_mdl, call>>

Send ==
  /\ pc = "send"
  /\ phases' = IF on_step(config.couplstep, t_mdl)
               THEN Append(phases, "send") ELSE phases
  /\ pc' = "observe"
  /\ UNCHANGED <<config, initdata, supers, spans, winds, t_mdl, call>>

Observe ==
  /\ pc = "observe"
  /\ phases' = IF on_step(config.obsstep, t_mdl)
               THEN Append(phases, "observe") ELSE phases
  /\ pc' = "advance"
  /\ UNCHANGED <<config, initdata, supers, spans, winds, t_mdl, call>>

Advance ==
  /\ pc = "advance"
  /\ t_mdl' = next_due(t_mdl)
  /\ phases' = <<>>
  /\ pc' = IF t_mdl' > config.t_end THEN "done" ELSE "receive"
  /\ UNCHANGED <<config, initdata, supers, spans, winds, call>>

Next == Create \/ Receive \/ Microphysics \/ Motion \/ Send \/ Observe \/ Advance

(* initial conditions: super-droplet kk in any gridbox of the first column,  *)
(* at an offset inside it that depends on kk, listed in any order of the    *)
(* gridbox indexes                                                          *)
InitDrop(kk, g) ==
  [sdgbxindex |-> g,
   coord3 |-> coord3bounds(g)[1] + ((kk - 1) % GbxWidth),
   coord1 |-> coord1bounds(g)[1],
   coord2 |-> coord2bounds(g)[1],
   radius |-> 1,
   xi |-> 1 + (kk % 2)]

InitDatasets ==
  {[kk \in 1 .. NSupers |-> InitDrop(kk, gs[kk])] :
     gs \in [1 .. NSupers -> 0 .. (DomainDims[1] - 1)]}

DriverConfig(periodic, couplstep, motionstep, microstep, obsstep, motion, dyn) ==
  [ndims |-> DomainDims, periodic |-> periodic,
   couplstep |-> couplstep, motionstep |-> motionstep,
   microstep |-> microstep, obsstep |-> obsstep,
   t_end |-> TEnd, motion |-> motion, dyn |-> dyn]

InitWith(configs, datasets) ==
  /\ config \in configs
  /\ initdata \in datasets
  /\ supers = <<>>
  /\ spans = <<>>
  /\ winds = <<>>
  /\ t_mdl = 0
  /\ pc = "create"
  /\ phases = <<>>
  /\ call = NoCall

Configs ==
  {DriverConfig(periodic, 2, 1, 1, 2, motion, dyn) :
     periodic \in {<<TRUE, TRUE, TRUE>>, <<FALSE, TRUE, TRUE>>},
     motion \in {"null", "predcorr"}, dyn \in {"null", "cvode"}}

Init == InitWith(Configs, InitDatasets)

Spec == Init /\ [][Next]_vars

(* the timestepping, which reads no super-droplet: runs of an empty         *)
(* population over the combinations of the four intervals; the driver is    *)
(* one thread that runs every phase to its end, so its next step is taken   *)
MaxInterval == 2    \* intervals are 1 .. MaxInterval

StepConfigs ==
  {DriverConfig(<<FALSE, TRUE, TRUE>>, couplstep, motionstep, microstep, obsstep,
                motion, "cvode") :
     couplstep \in 1 .. MaxInterval, motionstep \in 1 .. MaxInterval,
     microstep \in 1 .. MaxInterval, obsstep \in 1 .. MaxInterval,
     motion \in {"null", "predcorr"}}

InitSteps == InitWith(StepConfigs, {<<>>})

SpecSteps == InitSteps /\ [][Next]_vars /\ WF_vars(Next)

----------------------------------------------------------------------------
(* breakup.hpp: enactment of a collision-breakup event on a pair of         *)
(* super-droplets. A Superdrop is here its multiplicity eps, its radius and *)
(* its solute mass m_sol. A probability prob and a draw phi are numerators  *)
(* over ProbDen: prob - floor(prob) is (prob % ProbDen) / ProbDen.          *)

ProbDen == 2      \* probabilities and draws are multiples of 1 / ProbDen
MaxProb == 5      \* prob is 0 .. MaxProb over ProbDen
MaxEps == 3       \* multiplicities are 1 .. MaxEps
MaxEvents == 2    \* collision events on a pair

SDrop(eps, radius, m_sol) == [eps |-> eps, radius |-> radius, m_sol |-> m_sol]

twin_superdroplet_breakup_Halves(drop1, drop2) ==
  <<[drop1 EXCEPT !.eps = @ \div 2], drop2>>

twin_superdroplet_breakup(drop1, drop2) == <<drop1, drop2>>     \* empty body

different_superdroplet_breakup_Decrement(drop1, drop2) ==
  <<[drop1 EXCEPT !.eps = @ - drop2.eps], drop2>>

different_superdroplet_breakup(drop1, drop2) == <<drop1, drop2>>    \* empty body

superdroplet_pair_breakup(drop1, drop2) ==
  IF drop1.eps = drop2.eps
  THEN twin_superdroplet_breakup(drop1, drop2)
  ELSE different_superdroplet_breakup(drop1, drop2)

floor(prob) == prob \div ProbDen       \* in units of 1

breakup_gamma_Floor(eps1, eps2, prob, phi) ==
  floor(prob) + (IF phi < prob - floor(prob) * ProbDen THEN 1 ELSE 0)

breakup_gamma(eps1, eps2, prob, phi) ==
  IF phi < prob - floor(prob) * ProbDen THEN 1 ELSE 0

Breakup(drop1, drop2, prob, phi) ==          \* Breakup::operator()
  LET gamma == breakup_gamma(drop1.eps, drop2.eps, prob, phi)
  IN IF gamma # 0 THEN superdroplet_pair_breakup(drop1, drop2)
     ELSE <<drop1, drop2>>

(* Specification of collision-breakup events on one pair: the pair (the     *)
(* first with the larger multiplicity, as the collisions hand it over), the *)
(* configured number of fragments, then for each event a probability and a  *)
(* draw.                                                                    *)

MaxNfrags == 3    \* configured number of fragments 1 .. MaxNfrags

IdleDriver ==
  /\ config = BaseConfig(<<TRUE, TRUE, TRUE>>)
  /\ initdata = <<>>
  /\ supers = <<>>
  /\ spans = <<>>
  /\ winds = <<>>
  /\ t_mdl = 0
  /\ phases = <<>>

SDrops == {SDrop(eps, radius, m_sol) :
             eps \in 1 .. MaxEps, radius \in 1 .. 2, m_sol \in 0 .. 1}

InitBreakup ==
  /\ IdleDriver
  /\ pc = "collide"
  /\ \E drop1, drop2 \in SDrops : \E nfrags \in 1 .. MaxNfrags :
       /\ drop1.eps >= drop2.eps
       /\ call = [stage |-> "pair", drop1 |-> drop1, drop2 |-> drop2,
                  nfrags |-> nfrags, events |-> 0]

BreakupEvent ==
  /\ pc = "collide"
  /\ call.events < MaxEvents
  /\ \E prob \in 0 .. MaxProb : \E phi \in 0 .. (ProbDen - 1) :
       LET after == Breakup(call.drop1, call.drop2, prob, phi)
       IN call' = [stage |-> "event", drop1 |-> after[1], drop2 |-> after[2],
                   nfrags |-> call.nfrags, events |-> call.events + 1,
                   prob |-> prob, phi |-> phi,
                   gamma |-> breakup_gamma(call.drop1.eps, call.drop2.eps,
                                           prob, phi),
                   before |-> <<call.drop1, call.drop2>>]
  /\ UNCHANGED <<config, initdata, supers, spans, winds, t_mdl, pc, phases>>

NextBreakup == BreakupEvent

SpecBreakup == InitBreakup /\ [][NextBreakup]_vars

----------------------------------------------------------------------------
(* run_coupledmodel.cpp: preparation of the coupled model. A gridbox is its *)
(* relative humidity (percent) and the super-droplets of its span. The dry  *)
(* radius is the radius of the solute alone (units in which a unit radius   *)
(* holds a unit of solute), the equilibrium wet radius is what the root     *)
(* finder returns for the humidity handed over.                             *)

MaxMsol == 2          \* solute masses are 0 .. MaxMsol
MaxWetRadius == 2     \* radii are 0 .. MaxWetRadius
MaxPhases == 2        \* phases after the preparation
maxrelh == 95

get_dry_radius(drop) ==
  CHOOSE r \in 0 .. drop.m_sol :
    /\ r * r * r >= drop.m_sol
    /\ \A q \in 0 .. (r - 1) : q * q * q < drop.m_sol

std_min(a, b) == IF b < a THEN b ELSE a

std_max(a, b) == IF a < b THEN b ELSE a

(* wetradius[s_ratio]: the equilibrium radius of the super-droplet *)
superdroplet_wet_radius(wetradius, s_ratio) == wetradius[s_ratio]

set_superdroplets_to_wetradius_NoMax(gridboxes, wetradii) ==
  [g \in DOMAIN gridboxes |->
     LET s_ratio == std_min(maxrelh, gridboxes[g].relh)
     IN [gridboxes[g] EXCEPT !.span =
           [k \in DOMAIN @ |->
              [@[k] EXCEPT !.radius =
                 superdroplet_wet_radius(wetradii[g][k], s_ratio)]]]]

set_superdroplets_to_wetradius(gridboxes, wetradii) ==
  [g \in DOMAIN gridboxes |->
     LET s_ratio == std_min(maxrelh, gridboxes[g].relh)
     IN [gridboxes[g] EXCEPT !.span =
           [k \in DOMAIN @ |->
              LET equilwetradius ==
                    superdroplet_wet_radius(wetradii[g][k], s_ratio)
                  dryradius == get_dry_radius(@[k])
              IN [@[k] EXCEPT !.radius = std_max(dryradius, equilwetradius)]]]]

(* a successful sub-step of the condensation: radius := max(radius_new, r_dry) *)
condensation_substep(drop, radius_new) ==
  [drop EXCEPT !.radius = std_max(radius_new, get_dry_radius(drop))]

(* Specification of the preparation and of the phases after it that write   *)
(* radius or solute mass: condensation on a gridbox, a collision-breakup    *)
(* event on the first pair of a gridbox.                                    *)

Relhs == {80, 101}

SRatios == {std_min(maxrelh, relh) : relh \in Relhs}

SpanLengths == <<2, 1>>

PrepDrops == {SDrop(eps, 1, m_sol) : eps \in 1 .. 2, m_sol \in 0 .. MaxMsol}

InitPrepare ==
  /\ IdleDriver
  /\ pc = "prepare"
  /\ \E relh \in Relhs :
     \E span1 \in [1 .. SpanLengths[1] -> PrepDrops] :
     \E span2 \in [1 .. SpanLengths[2] -> PrepDrops] :
       LET gridboxes == <<[relh |-> relh, span |-> span1],
                          [relh |-> relh, span |-> span2]>>
       IN call = [stage |-> "created", gridboxes |-> gridboxes,
                  created |-> gridboxes, nphases |-> 0]

Prepare ==
  /\ pc = "prepare"
  /\ \E rootlow, roothigh \in 0 .. MaxWetRadius :
       LET wetradius == [s \in SRatios |-> IF s < maxrelh THEN rootlow ELSE roothigh]
           wetradii == [g \in DOMAIN call.gridboxes |->
                          [k \in DOMAIN call.gridboxes[g].span |-> wetradius]]
       IN call' = [call EXCEPT
                     !.stage = "prepared",
                     !.gridboxes = set_superdroplets_to_wetradius(@, wetradii)]
  /\ pc' = "run"
  /\ UNCHANGED <<config, initdata, supers, spans, winds, t_mdl, phases>>

CondenseGbx ==
  /\ pc = "run"
  /\ call.nphases < MaxPhases
  /\ \E g \in DOMAIN call.gridboxes : \E radius_new \in 0 .. MaxWetRadius :
       call' = [call EXCEPT
                  !.stage = "condensed",
                  !.nphases = @ + 1,
                  !.gridboxes[g].span =
                     [k \in DOMAIN @ |-> condensation_substep(@[k], radius_new)]]
  /\ UNCHANGED <<config, initdata, supers, spans, winds, t_mdl, pc, phases>>

CollideGbx ==
  /\ pc = "run"
  /\ call.nphases < MaxPhases
  /\ \E g \in DOMAIN call.gridboxes :
     \E prob \in 0 .. MaxProb : \E phi \in 0 .. (ProbDen - 1) :
       /\ Len(call.gridboxes[g].span) >= 2
       /\ LET span == call.gridboxes[g].span
              a == IF span[1].eps >= span[2].eps THEN 1 ELSE 2
              b == 3 - a
              after == Breakup(span[a], span[b], prob, phi)
          IN call' = [call EXCEPT
                        !.stage = "collided",
                        !.nphases = @ + 1,
                        !.gridboxes[g].span =
                           [[@ EXCEPT ![a] = after[1]] EXCEPT ![b] = after[2]]]
  /\ UNCHANGED <<config, initdata, supers, spans, winds, t_mdl, pc, phases>>

NextPrepare == Prepare \/ CondenseGbx \/ CollideGbx

SpecPrepare == InitPrepare /\ [][NextPrepare]_vars

----------------------------------------------------------------------------
(* main.cpp: main, statement by statement. The constructors and the run may *)
(* throw; main has no handler, so an exception leaves main uncaught and the *)
(* program is terminated (std::terminate, abort) instead of returning.      *)

MaxArgc == 4      \* argc is 1 .. MaxArgc

MainStatements ==
  <<"Config", "Timesteps", "FSStore", "create_coupldyn", "create_sdm",
    "InitConds", "runcleo">>

(* the kind of error of an exception thrown by a statement *)
ErrorKind(statement) ==
  CASE statement \in {"argc", "Config", "Timesteps", "FSStore"} -> "configuration/IO"
    [] statement \in {"create_coupldyn", "create_sdm", "InitConds"} -> "initialisation"
    [] statement = "runcleo" -> "runtime"
    [] OTHER -> "none"

uncaught_exception(statement) ==
  [stage |-> "ended", returned |-> FALSE, signal |-> "SIGABRT",
   error |-> ErrorKind(statement), thrownby |-> statement]

InitMain ==
  /\ IdleDriver
  /\ pc = "main"
  /\ \E argc \in 1 .. MaxArgc :
     \E throws \in {"none"} \cup {MainStatements[i] : i \in DOMAIN MainStatements} :
       call = [stage |-> "argc", argc |-> argc, throws |-> throws, at |-> 0]

MainCheckArgs ==
  /\ pc = "main"
  /\ call.stage = "argc"
  /\ IF call.argc < 2
     THEN call' = uncaught_exception("argc") /\ pc' = "terminated"
     ELSE call' = [call EXCEPT !.stage = "statements", !.at = 1] /\ pc' = pc
  /\ UNCHANGED <<config, initdata, supers, spans, winds, t_mdl, phases>>

MainStatement ==
  /\ pc = "main"
  /\ call.stage = "statements"
  /\ call.at <= Len(MainStatements)
  /\ IF call.throws = MainStatements[call.at]
     THEN call' = uncaught_exception(MainStatements[call.at]) /\ pc' = "terminated"
     ELSE call' = [call EXCEPT !.at = @ + 1] /\ pc' = pc
  /\ UNCHANGED <<config, initdata, supers, spans, winds, t_mdl, phases>>

MainReturn ==
  /\ pc = "main"
  /\ call.stage = "statements"
  /\ call.at > Len(MainStatements)
  /\ call' = [stage |-> "ended", returned |-> TRUE, code |-> 0,
              error |-> "none", thrownby |-> "none"]
  /\ pc' = "returned"
  /\ UNCHANGED <<config, initdata, supers, spans, winds, t_mdl, phases>>

NextMain == MainCheckArgs \/ MainStatement \/ MainReturn

SpecMain == InitMain /\ [][NextMain]_vars

----------------------------------------------------------------------------
(* urbg.hpp: shuffle of a view of super-droplets. Positions count from 0    *)
(* as in the code; draws[iter] is what urbg(0, iter) returns.               *)

MaxShuffle == 4   \* views of 0 .. MaxShuffle super-droplets

device_swap_NoCopy(view, a, b) ==       \* a = b; b = a
  [[view EXCEPT ![a + 1] = view[b + 1]] EXCEPT ![b + 1] = view[b + 1]]

device_swap(view, a, b) ==              \* c(a); a = b; b = c
  LET c == view[a + 1]
  IN [[view EXCEPT ![a + 1] = view[b + 1]] EXCEPT ![b + 1] = c]

RECURSIVE ShuffleLoop(_, _, _)
ShuffleLoop(view, iter, draws) ==
  IF iter > 0
  THEN ShuffleLoop(device_swap(view, iter, draws[iter]), iter - 1, draws)
  ELSE view

shuffle_supers(view, draws) ==
  LET dist == Len(view) - 1     \* distance to last element from first
  IN ShuffleLoop(view, dist, draws)

(* the sequences of draws of a view of n: draws[i] in [0, i], i = n-1 .. 1 *)
DrawSeqs(n) ==
  {draws \in [1 .. (n - 1) -> 0 .. (n - 1)] : \A i \in 1 .. (n - 1) : draws[i] <= i}

(* Specification of a view that is created from initial conditions, then    *)
(* shuffled, then has the gridbox index of one super-droplet updated after  *)
(* a change of its coordinate.                                              *)

ShuffleDrop(kk, g) == [InitDrop(kk, g) EXCEPT !.radius = kk]

ShuffleDatasets ==
  {[kk \in 1 .. n |-> ShuffleDrop(kk, g)] : n \in 0 .. MaxShuffle, g \in 0 .. 1}

InitShuffle ==
  /\ config = BaseConfig(<<TRUE, TRUE, TRUE>>)
  /\ initdata \in ShuffleDatasets
  /\ supers = <<>>
  /\ spans = <<>>
  /\ winds = <<>>
  /\ t_mdl = 0
  /\ phases = <<>>
  /\ pc = "create"
  /\ call = NoCall

CreateView ==
  /\ pc = "create"
  /\ supers' = CreateSupers
  /\ call' = [stage |-> "created", created |-> supers']
  /\ pc' = "shuffle"
  /\ UNCHANGED <<config, initdata, spans, winds, t_mdl, phases>>

Shuffle ==
  /\ pc = "shuffle"
  /\ \E draws \in DrawSeqs(Len(supers)) :
       /\ supers' = shuffle_supers(supers, draws)
       /\ call' = [stage |-> "shuffled", created |-> call.created,
                   view |-> supers, draws |-> draws]
  /\ pc' = "update"
  /\ UNCHANGED <<config, initdata, spans, winds, t_mdl, phases>>

UpdateGbxindex ==
  /\ pc = "update"
  /\ \E k \in 1 .. Len(supers) :
     \E coord3 \in (coord3bounds(supers[k].sdgbxindex)[1] - 1)
                     .. coord3bounds(supers[k].sdgbxindex)[2] :
       LET moved == [supers[k] EXCEPT !.coord3 = coord3]
       IN supers' = [supers EXCEPT ![k] = sdgbxindex_to_neighbour(moved).drop]
  /\ call' = [call EXCEPT !.stage = "updated"]
  /\ pc' = "end"
  /\ UNCHANGED <<config, initdata, spans, winds, t_mdl, phases>>

NextShuffle == CreateView \/ Shuffle \/ UpdateGbxindex

SpecShuffle == InitShuffle /\ [][NextShuffle]_vars

----------------------------------------------------------------------------
(* run_coupledmodel.cpp: the random number generator of a run, which        *)
(* prepare_coupledmodel returns as std::mt19937(std::random_device()()).    *)
(* The generator is a state and a function to the next state; a draw is     *)
(* read off the state.                                                      *)

MaxSeed == 1        \* configured seeds are 0 .. MaxSeed
MaxEntropy == 2     \* std::random_device()() returns 0 .. MaxEntropy
MaxDraws == 2       \* draws of a run
GenModulus == 16

std_mt19937(value) == value % GenModulus          \* state seeded by value

mt19937_next(gen) == (5 * gen + 3) % GenModulus

mt19937_draw(gen) == gen

std_random_device == 0 .. MaxEntropy

prepare_coupledmodel(seed, entropy) == std_mt19937(entropy)

(* Specification of two runs of one configuration (one configured seed):    *)
(* each is prepared, then draws.                                            *)

NewRun == [prepared |-> FALSE, gen |-> 0, draws |-> <<>>]

InitSeed ==
  /\ IdleDriver
  /\ pc = "runs"
  /\ \E seed \in 0 .. MaxSeed :
       call = [stage |-> "runs", seed |-> seed, runs |-> <<NewRun, NewRun>>]

PrepareRun ==
  /\ pc = "runs"
  /\ \E r \in 1 .. 2 : \E entropy \in std_random_device :
       /\ ~call.runs[r].prepared
       /\ call' = [call EXCEPT !.runs[r] =
                     [prepared |-> TRUE,
                      gen |-> prepare_coupledmodel(call.seed, entropy),
                      draws |-> <<>>]]
  /\ UNCHANGED <<config, initdata, supers, spans, winds, t_mdl, pc, phases>>

DrawRun ==
  /\ pc = "runs"
  /\ \E r \in 1 .. 2 :
       /\ call.runs[r].prepared
       /\ Len(call.runs[r].draws) < MaxDraws
       /\ call' = [call EXCEPT !.runs[r] =
                     [prepared |-> TRUE,
                      gen |-> mt19937_next(@.gen),
                      draws |-> Append(@.draws, mt19937_draw(@.gen))]]
  /\ UNCHANGED <<config, initdata, supers, spans, winds, t_mdl, pc, phases>>

NextSeed == PrepareRun \/ DrawRun

SpecSeed == InitSeed /\ [][NextSeed]_vars

----------------------------------------------------------------------------
(* massmomentsstorage.hpp: MassMomentsStorage, the 2-D [time, gbxindex]     *)
(* arrays of the mass moments.  Values are buffered and written as chunks   *)
(* of chunksize values; the metadata (.zarray) is written after every chunk.*)
(* A storage is a record; the store holds the chunks and the metadata last  *)
(* written.  NDEBUG tells whether the build compiles the asserts out.       *)

MaxChunk == 4       \* maxchunk is 0 .. MaxChunk
MaxNgbxs == 2       \* ngbxs is 1 .. MaxNgbxs
MaxObs == 2         \* observation events of a run

numeric_limits_max == 0     \* the value of an empty place of a buffer

Moments == {<<1, 1, 1>>, <<2, 4, 8>>}     \* 0th, 1st, 2nd moment of a gridbox

NoArray == [shape |-> <<>>, chunks |-> <<>>, dims |-> <<>>, ndata |-> 0]

good2Dchunk(maxchunk, ndim1) == (maxchunk \div ndim1) * ndim1

Buffers(chunksize) ==
  [mom0 |-> [i \in 1 .. chunksize |-> numeric_limits_max],
   mom1 |-> [i \in 1 .. chunksize |-> numeric_limits_max],
   mom2 |-> [i \in 1 .. chunksize |-> numeric_limits_max]]

MassMomentsStorage(NDEBUG, maxchunk, ndim1) ==
  [stage |-> "storage", NDEBUG |-> NDEBUG, maxchunk |-> maxchunk,
   chunksize |-> good2Dchunk(maxchunk, ndim1), ngbxs |-> ndim1,
   buffers |-> Buffers(good2Dchunk(maxchunk, ndim1)),
   chunkcount |-> 0, buffersfill |-> 0, ndata |-> 0, nobs |-> 0,
   store |-> [chunks |-> <<>>, zarray |-> NoArray],
   gbx |-> 0, aborted |-> FALSE]

(* writejsons: the two asserts, then shape, chunks and dims.  ndata of the  *)
(* metadata is the value of ndata the first assert read.                    *)
writejsons_FlatChunks(st) ==
  IF /\ ~st.NDEBUG
     /\ ~(st.ndata = st.nobs * st.ngbxs /\ st.chunksize % st.ngbxs = 0)
  THEN [st EXCEPT !.aborted = TRUE]
  ELSE [st EXCEPT !.store.zarray =
          [shape |-> <<st.nobs, st.ngbxs>>,
           chunks |-> <<st.chunksize, st.ngbxs>>,
           dims |-> <<"time", "gbxindex">>,
           ndata |-> st.ndata]]

writejsons(st) ==
  IF /\ ~st.NDEBUG
     /\ ~(st.ndata = st.nobs * st.ngbxs /\ st.chunksize % st.ngbxs = 0)
  THEN [st EXCEPT !.aborted = TRUE]
  ELSE [st EXCEPT !.store.zarray =
          [shape |-> <<st.nobs, st.ngbxs>>,
           chunks |-> <<st.chunksize \div st.ngbxs, st.ngbxs>>,
           dims |-> <<"time", "gbxindex">>,
           ndata |-> st.ndata]]

(* storehelpers::writebuffer2chunk for the three buffers: the buffers go to *)
(* the store as chunk chunkcount, are emptied, and the pair                 *)
(* (chunkcount + 1, 0) becomes (chunkcount, buffersfill).                   *)
writebuffer2chunk(st) ==
  [st EXCEPT !.store.chunks = Append(@, st.buffers),
             !.buffers = Buffers(st.chunksize),
             !.chunkcount = @ + 1,
             !.buffersfill = 0]

writechunk(st) == writejsons(writebuffer2chunk(st))

(* storehelpers::val2buffer: buffer[fill] = val, returns fill + 1.  A write *)
(* past the end of the buffer (chunksize = 0) is undefined: it ends the     *)
(* process ("crash") or lands outside the buffer ("outside").               *)
val2buffer(val, buffer, fill) ==
  IF fill < Len(buffer) THEN [buffer EXCEPT ![fill + 1] = val] ELSE buffer

Outcomes(st) ==
  IF st.buffersfill < st.chunksize THEN {"written"} ELSE {"crash", "outside"}

copy2buffer(st, mom, outcome) ==
  IF outcome = "crash"
  THEN [st EXCEPT !.aborted = TRUE]
  ELSE [st EXCEPT !.buffers =
                    [mom0 |-> val2buffer(mom[1], st.buffers.mom0, st.buffersfill),
                     mom1 |-> val2buffer(mom[2], st.buffers.mom1, st.buffersfill),
                     mom2 |-> val2buffer(mom[3], st.buffers.mom2, st.buffersfill)],
                  !.buffersfill = @ + 1,
                  !.ndata = @ + 1]

flushed(st) == IF st.buffersfill = st.chunksize THEN writechunk(st) ELSE st

massmoments_to_storage(st, mom, outcome) ==
  IF flushed(st).aborted
  THEN flushed(st)
  ELSE copy2buffer(flushed(st), mom, outcome)

destructor(st) == IF st.buffersfill # 0 THEN writechunk(st) ELSE st

(* The observer of the mass moments: at an observation event it stores the  *)
(* moments of every gridbox in turn, then counts the event in nobs.         *)
observe_gridbox(st, mom, outcome) ==
  IF massmoments_to_storage(st, mom, outcome).aborted
  THEN massmoments_to_storage(st, mom, outcome)
  ELSE IF st.gbx + 1 = st.ngbxs
       THEN [massmoments_to_storage(st, mom, outcome) EXCEPT
               !.gbx = 0, !.nobs = @ + 1]
       ELSE [massmoments_to_storage(st, mom, outcome) EXCEPT !.gbx = @ + 1]

(* Specification of a storage: constructed, observed gridbox by gridbox,    *)
(* destroyed after a whole number of observation events.                    *)

InitStorage ==
  /\ IdleDriver
  /\ pc = "observing"
  /\ \E NDEBUG \in BOOLEAN : \E maxchunk \in 0 .. MaxChunk :
       \E ndim1 \in 1 .. MaxNgbxs :
         call = MassMomentsStorage(NDEBUG, maxchunk, ndim1)

ObserveGbx ==
  /\ pc = "observing"
  /\ call.nobs < MaxObs
  /\ \E mom \in Moments :
       \E after \in {observe_gridbox(call, mom, outcome) :
                       outcome \in Outcomes(flushed(call))} :
         /\ call' = after
         /\ pc' = IF after.aborted THEN "aborted" ELSE "observing"
  /\ UNCHANGED <<config, initdata, supers, spans, winds, t_mdl, phases>>

Destroy ==
  /\ pc = "observing"
  /\ call.gbx = 0
  /\ \E after \in {destructor(call)} :
       /\ call' = after
       /\ pc' = IF after.aborted THEN "aborted" ELSE "destroyed"
  /\ UNCHANGED <<config, initdata, supers, spans, winds, t_mdl, phases>>

NextStorage == ObserveGbx \/ Destroy

SpecStorage == InitStorage /\ [][NextStorage]_vars

----------------------------------------------------------------------------
(* buffer.hpp: Buffer, a buffer of chunksize elements of which the first    *)
(* fill hold data, and ZarrArrayViaBuffer, which writes an array in chunks  *)
(* through a buffer.  A view of data is a sequence; position jj of the code *)
(* (from 0) is position jj + 1 here.  Reading a view beyond its extent is   *)
(* undefined: the read ends the process (a build that checks bounds) or     *)
(* gives some value.                                                        *)

MaxChunksize == 3   \* chunksize is 1 .. MaxChunksize
MaxData == 4        \* a view of data has 0 .. MaxData elements
MaxCalls == 3       \* calls made on one buffer or array

Data(n) == [i \in 1 .. n |-> i]       \* the elements of a view tell its positions

Datas == {Data(n) : n \in 0 .. MaxData}

Garbage == {numeric_limits_max, MaxData + 1}    \* values read beyond an extent

reset_buffer_KeepsData(b) == [b EXCEPT !.fill = 0]

reset_buffer(b) ==
  [b EXCEPT !.buffer = [jj \in 1 .. b.chunksize |-> numeric_limits_max],
            !.fill = 0]

Buffer(i_chunksize) ==
  reset_buffer([chunksize |-> i_chunksize, fill |-> 0,
                buffer |-> [jj \in 1 .. i_chunksize |-> numeric_limits_max]])

get_space(b) == b.chunksize - b.fill

(* the positions copy_ndata_to_buffer reads beyond the extent of h_data *)
BeyondExtent(b, n_to_copy, h_data) ==
  {jj \in (b.fill + 1) .. (b.fill + n_to_copy) : jj > Len(h_data)}

(* buffer(jj) = h_data(jj) for jj in [fill, fill + n_to_copy); beyond gives *)
(* the values read beyond the extent of h_data                              *)
copy_ndata_to_buffer(b, n_to_copy, h_data, beyond) ==
  [b EXCEPT !.buffer =
              [jj \in 1 .. b.chunksize |->
                 IF b.fill < jj /\ jj <= b.fill + n_to_copy
                 THEN (IF jj <= Len(h_data) THEN h_data[jj] ELSE beyond[jj])
                 ELSE b.buffer[jj]],
            !.fill = @ + n_to_copy]

subview(h_data, first, last) == SubSeq(h_data, first + 1, last)

n_to_copy_Chunksize(b, h_data) == std_min(b.chunksize, Len(h_data))

n_to_copy(b, h_data) == std_min(get_space(b), Len(h_data))

copy_to_buffer(b, h_data, beyond) ==
  [buffer |-> copy_ndata_to_buffer(b, n_to_copy(b, h_data), h_data, beyond),
   rem |-> subview(h_data, n_to_copy(b, h_data), Len(h_data))]

write_chunk(za) ==
  [za EXCEPT !.from_buffer = @ + za.buffer.fill,
             !.buffer = reset_buffer(za.buffer)]

(* Specification of single buffers: copy_to_buffer and write_chunk in any   *)
(* order; last holds the most recent copy_to_buffer call.                   *)

NoCopy == [fill |-> 0, h_data |-> <<>>, rem |-> <<>>, called |-> FALSE]

ZarrArrayViaBuffer(i_chunksize) ==
  [stage |-> "array", buffer |-> Buffer(i_chunksize), from_buffer |-> 0,
   from_data |-> 0, passed |-> 0, ncalls |-> 0, last |-> NoCopy,
   leftover |-> <<>>]

InitCopy ==
  /\ IdleDriver
  /\ pc = "buffer"
  /\ \E i_chunksize \in 1 .. MaxChunksize :
       call = [ZarrArrayViaBuffer(i_chunksize) EXCEPT !.stage = "buffer"]

CopyToBuffer ==
  /\ pc = "buffer"
  /\ call.ncalls < MaxCalls
  /\ \E h_data \in Datas :
       \/ /\ BeyondExtent(call.buffer, n_to_copy(call.buffer, h_data), h_data) # {}
          /\ pc' = "crashed"
          /\ call' = [call EXCEPT !.ncalls = @ + 1]
       \/ \E beyond \in [BeyondExtent(call.buffer, n_to_copy(call.buffer, h_data),
                                      h_data) -> Garbage] :
            /\ pc' = pc
            /\ call' = [call EXCEPT
                 !.buffer = copy_to_buffer(call.buffer, h_data, beyond).buffer,
                 !.passed = @ + Len(h_data),
                 !.ncalls = @ + 1,
                 !.last = [fill |-> call.buffer.fill, h_data |-> h_data,
                           rem |-> copy_to_buffer(call.buffer, h_data, beyond).rem,
                           called |-> TRUE]]
  /\ UNCHANGED <<config, initdata, supers, spans, winds, t_mdl, phases>>

WriteChunk ==
  /\ pc = "buffer"
  /\ call.ncalls < MaxCalls
  /\ call' = [write_chunk(call) EXCEPT !.ncalls = @ + 1, !.last = NoCopy]
  /\ UNCHANGED <<config, initdata, supers, spans, winds, t_mdl, pc, phases>>

NextCopy == CopyToBuffer \/ WriteChunk

SpecCopy == InitCopy /\ [][NextCopy]_vars

(* ZarrArrayViaBuffer: from_buffer counts the elements of the chunks        *)
(* written from the buffer, from_data those of the whole chunks written     *)
(* directly from the data, passed those given to write_array; leftover is   *)
(* h_data_rem as the assertion of write_array reads it.                     *)

write_chunks_KeepsFullBuffer(za, h_data) ==
  [za |-> [za EXCEPT !.from_data =
                       @ + (Len(h_data) \div za.buffer.chunksize)
                             * za.buffer.chunksize],
   rem |-> subview(h_data,
                   (Len(h_data) \div za.buffer.chunksize) * za.buffer.chunksize,
                   Len(h_data))]

write_chunks(za, h_data) ==
  LET flushed_za == IF get_space(za.buffer) = 0 THEN write_chunk(za) ELSE za
      nchunks_data == Len(h_data) \div za.buffer.chunksize
      n_to_chunks == nchunks_data * za.buffer.chunksize
  IN [za |-> [flushed_za EXCEPT !.from_data = @ + n_to_chunks],
      rem |-> subview(h_data, n_to_chunks, Len(h_data))]

(* write_array up to its call of write_chunks *)
copied_and_chunked(za, h_data, beyond) ==
  write_chunks([za EXCEPT !.buffer = copy_to_buffer(za.buffer, h_data, beyond).buffer],
               copy_to_buffer(za.buffer, h_data, beyond).rem)

write_array(za, h_data, beyond1, beyond2) ==
  LET chunked == copied_and_chunked(za, h_data, beyond1)
      copied == copy_to_buffer(chunked.za.buffer, chunked.rem, beyond2)
  IN [chunked.za EXCEPT !.buffer = copied.buffer,
                        !.leftover = copied.rem,
                        !.passed = @ + Len(h_data),
                        !.ncalls = @ + 1]

destroy_array(za) ==
  IF get_space(za.buffer) < za.buffer.chunksize THEN write_chunk(za) ELSE za

(* Specification of an array: write_array calls with data of any size, then *)
(* destruction.                                                             *)

InitArray ==
  /\ IdleDriver
  /\ pc = "array"
  /\ \E i_chunksize \in 1 .. MaxChunksize : call = ZarrArrayViaBuffer(i_chunksize)

BeyondFirst(h_data) ==
  BeyondExtent(call.buffer, n_to_copy(call.buffer, h_data), h_data)

BeyondSecond(h_data, beyond1) ==
  BeyondExtent(copied_and_chunked(call, h_data, beyond1).za.buffer,
               n_to_copy(copied_and_chunked(call, h_data, beyond1).za.buffer,
                         copied_and_chunked(call, h_data, beyond1).rem),
               copied_and_chunked(call, h_data, beyond1).rem)

WriteArray ==
  /\ pc = "array"
  /\ call.ncalls < MaxCalls
  /\ \E h_data \in Datas : \E beyond1 \in [BeyondFirst(h_data) -> Garbage] :
       \/ /\ BeyondFirst(h_data) \cup BeyondSecond(h_data, beyond1) # {}
          /\ pc' = "crashed"
          /\ call' = [call EXCEPT !.ncalls = @ + 1]
       \/ \E beyond2 \in [BeyondSecond(h_data, beyond1) -> Garbage] :
            /\ pc' = pc
            /\ call' = write_array(call, h_data, beyond1, beyond2)
  /\ UNCHANGED <<config, initdata, supers, spans, winds, t_mdl, phases>>

DestroyArray ==
  /\ pc = "array"
  /\ pc' = "destroyed"
  /\ call' = destroy_array(call)
  /\ UNCHANGED <<config, initdata, supers, spans, winds, t_mdl, phases>>

NextArray == WriteArray \/ DestroyArray

SpecArray == InitArray /\ [][NextArray]_vars

(* contigraggedsdstorage.hpp: ContiguousRaggedSDStorage, the arrays of      *)
(* super-droplet data in contiguous ragged representation with the count    *)
(* array raggedcount.  The store holds, for the data and for raggedcount,   *)
(* the chunks in the order written (label and content) and the shape of the *)
(* metadata; points and counts are the values passed so far.                *)

MaxOps == 4         \* calls made on one storage before its destruction

Points == 1 .. 2    \* a data point of a super-droplet; a count of an event

EmptyBuffer(csize) == [jj \in 1 .. csize |-> numeric_limits_max]

(* the buffer goes to the store as chunk chunknum and is emptied *)
storagehelper_writebuffer2chunk(chunks, buffer, chunknum) ==
  [chunks |-> Append(chunks, [label |-> chunknum, data |-> buffer]),
   buffer |-> EmptyBuffer(Len(buffer))]

ContiguousRaggedSDStorage(csize) ==
  [stage |-> "ragged", chunksize |-> csize,
   sdbuffers |-> EmptyBuffer(csize), raggedcount |-> EmptyBuffer(csize),
   chunkcount |-> 0, bufferfill |-> 0, ndata |-> 0,
   raggedcount_chunkcount |-> 0, raggedcount_bufferfill |-> 0,
   raggedcount_ndata |-> 0,
   store |-> [data |-> <<>>, raggedcount |-> <<>>,
              shape |-> <<>>, chunks |-> <<>>,
              count_shape |-> <<>>, count_chunks |-> <<>>],
   points |-> <<>>, counts |-> <<>>]

(* data_to_contigraggedarray up to the copy: a full buffer is written out *)
sdbuffers_flushed(st) ==
  IF st.bufferfill = st.chunksize
  THEN [st EXCEPT
          !.store.data = storagehelper_writebuffer2chunk(
                           @, st.sdbuffers, st.chunkcount).chunks,
          !.sdbuffers = EmptyBuffer(st.chunksize),
          !.chunkcount = @ + 1,
          !.bufferfill = 0]
  ELSE st

data_to_contigraggedarray(st, superdrop) ==
  [sdbuffers_flushed(st) EXCEPT
     !.sdbuffers = val2buffer(superdrop, @, sdbuffers_flushed(st).bufferfill),
     !.bufferfill = @ + 1,
     !.ndata = @ + 1,
     !.points = Append(@, superdrop)]

raggedcount_flushed_KeepsFill(st) ==
  IF st.raggedcount_bufferfill = st.chunksize
  THEN [st EXCEPT
          !.store.raggedcount = storagehelper_writebuffer2chunk(
                                  @, st.raggedcount,
                                  st.raggedcount_chunkcount).chunks,
          !.raggedcount = EmptyBuffer(st.chunksize),
          !.raggedcount_chunkcount = @ + 1]
  ELSE st

raggedcount_flushed(st) ==
  IF st.raggedcount_bufferfill = st.chunksize
  THEN [st EXCEPT
          !.store.raggedcount = storagehelper_writebuffer2chunk(
                                  @, st.raggedcount,
                                  st.raggedcount_chunkcount).chunks,
          !.raggedcount = EmptyBuffer(st.chunksize),
          !.raggedcount_chunkcount = @ + 1,
          !.raggedcount_bufferfill = 0]
  ELSE st

contigraggedarray_count(st, n) ==
  [raggedcount_flushed(st) EXCEPT
     !.raggedcount = val2buffer(n, @, raggedcount_flushed(st).raggedcount_bufferfill),
     !.raggedcount_bufferfill = @ + 1,
     !.raggedcount_ndata = @ + 1,
     !.counts = Append(@, n)]

ContiguousRaggedSDStorage_destructor_NoLastChunk(st) ==
  [st EXCEPT !.store.shape = <<st.ndata>>,
             !.store.chunks = <<st.chunksize>>,
             !.store.count_shape = <<st.raggedcount_ndata>>,
             !.store.count_chunks = <<st.chunksize>>]

ContiguousRaggedSDStorage_destructor(st) ==
  LET st1 == IF st.bufferfill # 0
             THEN [st EXCEPT
                     !.store.data = storagehelper_writebuffer2chunk(
                                      @, st.sdbuffers, st.chunkcount).chunks,
                     !.sdbuffers = EmptyBuffer(st.chunksize),
                     !.chunkcount = @ + 1]
             ELSE st
      st2 == IF st1.raggedcount_bufferfill # 0
             THEN [st1 EXCEPT
                     !.store.raggedcount = storagehelper_writebuffer2chunk(
                                             @, st1.raggedcount,
                                             st1.raggedcount_chunkcount).chunks,
                     !.raggedcount = EmptyBuffer(st.chunksize),
                     !.raggedcount_chunkcount = @ + 1]
             ELSE st1
  IN [st2 EXCEPT !.store.shape = <<st2.ndata>>,
                 !.store.chunks = <<st2.chunksize>>,
                 !.store.count_shape = <<st2.raggedcount_ndata>>,
                 !.store.count_chunks = <<st2.chunksize>>]

(* Specification of a storage: data points and counts in any order, then    *)
(* destruction.                                                             *)

InitRagged ==
  /\ IdleDriver
  /\ pc = "ragged"
  /\ \E csize \in 1 .. MaxChunksize : call = ContiguousRaggedSDStorage(csize)

DataToArray ==
  /\ pc = "ragged"
  /\ call.ndata + call.raggedcount_ndata < MaxOps
  /\ \E superdrop \in Points : call' = data_to_contigraggedarray(call, superdrop)
  /\ UNCHANGED <<config, initdata, supers, spans, winds, t_mdl, pc, phases>>

CountToArray ==
  /\ pc = "ragged"
  /\ call.ndata + call.raggedcount_ndata < MaxOps
  /\ \E n \in Points : call' = contigraggedarray_count(call, n)
  /\ UNCHANGED <<config, initdata, supers, spans, winds, t_mdl, pc, phases>>

DestroyRagged ==
  /\ pc = "ragged"
  /\ pc' = "destroyed"
  /\ call' = ContiguousRaggedSDStorage_destructor(call)
  /\ UNCHANGED <<config, initdata, supers, spans, winds, t_mdl, phases>>

NextRagged == DataToArray \/ CountToArray \/ DestroyRagged

SpecRagged == InitRagged /\ [][NextRagged]_vars

(* Specification of the two storages that write chunks from buffers:        *)
(* a ContiguousRaggedSDStorage or a MassMomentsStorage.                     *)

InitChunked == InitRagged \/ InitStorage

NextChunked == NextRagged \/ NextStorage

SpecChunked == InitChunked /\ [][NextChunked]_vars

(* superdropbuffers.hpp: buffers objects and their combination a >> b.  An  *)
(* object is a tuple: <<"null">>, <<"combined", a, b>>, or a buffer of one  *)
(* attribute <<"buffer", name, values>>.  copy2buffer returns the buffer    *)
(* fill, writechunk the pair (chunkcount, bufferfill); both also return the *)
(* object, and writechunk the store, as they have become.                   *)

NullSuperdropIntoStoreViaBuffer == <<"null">>

AttributeBuffer(name, csize) == <<"buffer", name, EmptyBuffer(csize)>>

CombinedSuperdropBuffers(a, b) == <<"combined", a, b>>

RECURSIVE buffers_copy2buffer(_, _, _)
buffers_copy2buffer(b, superdrop, j) ==
  CASE b[1] = "null" -> [b |-> b, ret |-> j]
    [] b[1] = "buffer" ->
         [b |-> <<"buffer", b[2], val2buffer(superdrop, b[3], j)>>,
          ret |-> j + 1]
    [] b[1] = "combined" ->
         [b |-> <<"combined", buffers_copy2buffer(b[2], superdrop, j).b,
                  buffers_copy2buffer(b[3], superdrop, j).b>>,
          ret |-> j + 1]

RECURSIVE buffers_writechunk(_, _, _)
buffers_writechunk(b, store, chunkcount) ==
  CASE b[1] = "null" -> [b |-> b, store |-> store, ret |-> <<chunkcount, 0>>]
    [] b[1] = "buffer" ->
         [b |-> <<"buffer", b[2], EmptyBuffer(Len(b[3]))>>,
          store |-> Append(store, [name |-> b[2], chunk |-> chunkcount,
                                   data |-> b[3]]),
          ret |-> <<chunkcount + 1, 0>>]
    [] b[1] = "combined" ->
         [b |-> <<"combined", buffers_writechunk(b[2], store, chunkcount).b,
                  buffers_writechunk(
                    b[3], buffers_writechunk(b[2], store, chunkcount).store,
                    chunkcount).b>>,
          store |-> buffers_writechunk(
                      b[3], buffers_writechunk(b[2], store, chunkcount).store,
                      chunkcount).store,
          ret |-> <<chunkcount + 1, 0>>]

(* Specification of a buffers object B beside Null >> B and B >> Null: the  *)
(* same calls are made on the three; alone, left and right hold each        *)
(* object, its store and what its last call returned.                       *)

BuffersObjects(csize) ==
  {NullSuperdropIntoStoreViaBuffer,
   AttributeBuffer("radius", csize),
   CombinedSuperdropBuffers(AttributeBuffer("radius", csize),
                            AttributeBuffer("xi", csize))}

Used(b) == [b |-> b, store |-> <<>>, ret |-> <<>>]

InitBuffers ==
  /\ IdleDriver
  /\ pc = "buffers"
  /\ \E csize \in 1 .. MaxChunksize : \E b \in BuffersObjects(csize) :
       call = [stage |-> "buffers", chunksize |-> csize, ncalls |-> 0,
               alone |-> Used(b),
               left |-> Used(CombinedSuperdropBuffers(
                               NullSuperdropIntoStoreViaBuffer, b)),
               right |-> Used(CombinedSuperdropBuffers(
                                b, NullSuperdropIntoStoreViaBuffer))]

Copied2Buffer(used, superdrop, j) ==
  [b |-> buffers_copy2buffer(used.b, superdrop, j).b,
   store |-> used.store,
   ret |-> <<buffers_copy2buffer(used.b, superdrop, j).ret>>]

WroteChunk(used, chunkcount) ==
  [b |-> buffers_writechunk(used.b, used.store, chunkcount).b,
   store |-> buffers_writechunk(used.b, used.store, chunkcount).store,
   ret |-> buffers_writechunk(used.b, used.store, chunkcount).ret]

BuffersCopy ==
  /\ pc = "buffers"
  /\ call.ncalls < MaxCalls
  /\ \E superdrop \in Points : \E j \in 0 .. (call.chunksize - 1) :
       call' = [call EXCEPT !.ncalls = @ + 1,
                            !.alone = Copied2Buffer(@, superdrop, j),
                            !.left = Copied2Buffer(@, superdrop, j),
                            !.right = Copied2Buffer(@, superdrop, j)]
  /\ UNCHANGED <<config, initdata, supers, spans, winds, t_mdl, pc, phases>>

BuffersWrite ==
  /\ pc = "buffers"
  /\ call.ncalls < MaxCalls
  /\ \E chunkcount \in 0 .. 1 :
       call' = [call EXCEPT !.ncalls = @ + 1,
                            !.alone = WroteChunk(@, chunkcount),
                            !.left = WroteChunk(@, chunkcount),
                            !.right = WroteChunk(@, chunkcount)]
  /\ UNCHANGED <<config, initdata, supers, spans, winds, t_mdl, pc, phases>>

NextBuffers == BuffersCopy \/ BuffersWrite

SpecBuffers == InitBuffers /\ [][NextBuffers]_vars

(* run_coupledmodel.cpp: the exchange with the thermodynamics solver at a   *)
(* coupled step.  A ThermoState is a record; the solver holds y, the four   *)
(* variables (press, temp, qvap, qcond) of every gridbox in a row, and      *)
(* reinits, the delta_y of every reinitialise call.                         *)

NVARS == 4
MaxSteps == 2       \* coupled steps of a run
gridN == 2          \* number of gridboxes

ThermoState(press, temp, qvap, qcond) ==
  [press |-> press, temp |-> temp, qvap |-> qvap, qcond |-> qcond]

ThermoState_minus(a, b) ==
  ThermoState(a.press - b.press, a.temp - b.temp,
              a.qvap - b.qvap, a.qcond - b.qcond)

(* changes of (temp, qvap, qcond) of a gridbox by the microphysics: none,   *)
(* condensation, evaporation                                                *)
MicroDeltas == {<<0, 0, 0>>, <<1, -1, 1>>, <<-1, 1, -1>>}

(* changes of temp of a gridbox by a step of the solver *)
SolverDrifts == {0, -1}

set_thermostate(ii, y) ==
  ThermoState(y[NVARS * ii + 1], y[NVARS * ii + 2],
              y[NVARS * ii + 3], y[NVARS * ii + 4])

set_thermodynamics_from_cvodesolver(y) ==
  [ii \in 1 .. gridN |-> set_thermostate(ii - 1, y)]

cvode_reinitialise(cvode, delta_y) ==
  [y |-> [k \in 1 .. (gridN * NVARS) |-> cvode.y[k] + delta_y[k]],
   reinits |-> Append(cvode.reinits, delta_y)]

nodelta == [k \in 1 .. (gridN * NVARS) |-> 0]

delta_y_of(previousstates, gridboxes) ==
  [k \in 1 .. (gridN * NVARS) |->
     LET ii == (k - 1) \div NVARS
         delta_state == ThermoState_minus(gridboxes[ii + 1], previousstates[ii + 1])
     IN CASE k = NVARS * ii + 2 -> delta_state.temp
          [] k = NVARS * ii + 3 -> delta_state.qvap
          [] k = NVARS * ii + 4 -> delta_state.qcond
          [] OTHER -> 0]

thermodynamic_changes_to_cvodesolver(previousstates, gridboxes, cvode) ==
  IF delta_y_of(previousstates, gridboxes) # nodelta
  THEN cvode_reinitialise(cvode, delta_y_of(previousstates, gridboxes))
  ELSE cvode

proceeed_tonext_coupledstep_Always(doCouple, previousstates, gridboxes, cvode) ==
  thermodynamic_changes_to_cvodesolver(previousstates, gridboxes, cvode)

proceeed_tonext_coupledstep(doCouple, previousstates, gridboxes, cvode) ==
  IF doCouple
  THEN thermodynamic_changes_to_cvodesolver(previousstates, gridboxes, cvode)
  ELSE cvode

(* Specification of the coupled steps: the states are received from the     *)
(* solver, the microphysics changes gridbox states, the changes are sent    *)
(* back, the solver steps.  before holds the solver as it was before the    *)
(* last send.                                                               *)

y_init == [k \in 1 .. (gridN * NVARS) |-> 1]

InitCouple ==
  /\ IdleDriver
  /\ pc = "receive_thermo"
  /\ \E doCouple \in BOOLEAN :
       call = [stage |-> "couple", doCouple |-> doCouple,
               cvode |-> [y |-> y_init, reinits |-> <<>>],
               gridboxes |-> set_thermodynamics_from_cvodesolver(y_init),
               previousstates |-> set_thermodynamics_from_cvodesolver(y_init),
               before |-> [y |-> y_init, reinits |-> <<>>],
               nmicro |-> 0, steps |-> 0]

ReceiveThermo ==
  /\ pc = "receive_thermo"
  /\ call.steps < MaxSteps
  /\ pc' = "sdm"
  /\ call' = [call EXCEPT
                !.gridboxes = set_thermodynamics_from_cvodesolver(call.cvode.y),
                !.previousstates = set_thermodynamics_from_cvodesolver(call.cvode.y),
                !.nmicro = 0]
  /\ UNCHANGED <<config, initdata, supers, spans, winds, t_mdl, phases>>

SdmMicrophysics ==
  /\ pc = "sdm"
  /\ call.nmicro < gridN
  /\ \E d \in MicroDeltas :
       call' = [call EXCEPT
                  !.nmicro = @ + 1,
                  !.gridboxes[call.nmicro + 1] =
                     ThermoState(@.press, @.temp + d[1], @.qvap + d[2],
                                 @.qcond + d[3])]
  /\ UNCHANGED <<config, initdata, supers, spans, winds, t_mdl, pc, phases>>

SendThermo ==
  /\ pc = "sdm"
  /\ call.nmicro = gridN
  /\ pc' = "sent"
  /\ call' = [call EXCEPT
                !.before = call.cvode,
                !.cvode = proceeed_tonext_coupledstep(
                            call.doCouple, call.previousstates,
                            call.gridboxes, call.cvode)]
  /\ UNCHANGED <<config, initdata, supers, spans, winds, t_mdl, phases>>

SolverStep ==
  /\ pc = "sent"
  /\ pc' = "receive_thermo"
  /\ \E drift \in SolverDrifts :
       call' = [call EXCEPT
                  !.steps = @ + 1,
                  !.cvode.y = [k \in 1 .. (gridN * NVARS) |->
                                 IF k % NVARS = 2 THEN @[k] + drift ELSE @[k]]]
  /\ UNCHANGED <<config, initdata, supers, spans, winds, t_mdl, phases>>

NextCouple == ReceiveThermo \/ SdmMicrophysics \/ SendThermo \/ SolverStep

SpecCouple == InitCouple /\ [][NextCouple]_vars

----------------------------------------------------------------------------
(* Properties of the transport bookkeeping and of the driver (Spec) *)

Positions(s) == 1 .. Len(s)

InSpan(sp, g, k) == sp[g][1] < k /\ k <= sp[g][2]    \* k a position from 1

Bookkept == pc = "send" /\ phases # <<>> /\ phases[Len(phases)] = "motion"

(* C1: after every transport-bookkeeping step every super-droplet inside    *)
(* the span of a gridbox has the index of that gridbox.                     *)
C1_SpanHoldsOwnIndex ==
  Bookkept =>
    \A g \in Gbxs : \A k \in Positions(supers) :
      InSpan(spans, g, k) => supers[k].sdgbxindex = g

(* after a bookkeeping, a super-droplet is in the span of a gridbox other   *)
(* than the one it was created in                                           *)
C1_Witness ==
  /\ Bookkept
  /\ \E g \in Gbxs : \E k \in Positions(supers) :
       /\ InSpan(spans, g, k)
       /\ initdata[supers[k].id + 1].sdgbxindex # g

IsSorted(s) ==
  \A j, k \in Positions(s) : j < k => s[j].sdgbxindex <= s[k].sdgbxindex

(* C2 as stated: after every phase (creation, microphysics, motion with     *)
(* bookkeeping) the array is sorted in non-decreasing order of gridbox      *)
(* index.                                                                   *)
C2_SortedAfterEveryPhase ==
  pc \in {"receive", "micro", "motion", "send", "observe", "advance", "done"}
    => IsSorted(supers)

JustCreated == pc = "receive" /\ t_mdl = 0 /\ phases = <<>>

(* C21 as stated: the view CreateSupers::operator() returns holds one       *)
(* super-droplet for each one the initial conditions list and is ordered by *)
(* gridbox index, in whatever order the initial conditions list them.       *)
C21_CreatedOrderedByGbxindex ==
  JustCreated => (Len(supers) = Len(initdata) /\ IsSorted(supers))

InDomainPositions == {k \in Positions(supers) : supers[k].sdgbxindex # uintmax}

SpanPositions(g) == {k \in Positions(supers) : InSpan(spans, g, k)}

(* C3: after bookkeeping the spans are pairwise disjoint, their union is    *)
(* the set of the in-domain super-droplets, which is a prefix of the array; *)
(* the outside-domain super-droplets are kept (no super-droplet is lost or  *)
(* duplicated) behind that prefix, in no span.                              *)
C3_SpansCoverInDomainPrefix ==
  /\ pc # "create" =>
       /\ Len(supers) = Len(initdata)
       /\ {supers[k].id : k \in Positions(supers)} = 0 .. (Len(initdata) - 1)
  /\ Bookkept =>
       /\ \A g, h \in Gbxs : g # h => SpanPositions(g) \cap SpanPositions(h) = {}
       /\ \A g \in Gbxs : spans[g][1] <= spans[g][2] /\ spans[g][2] <= Len(supers)
       /\ UNION {SpanPositions(g) : g \in Gbxs} = InDomainPositions
       /\ InDomainPositions = 1 .. Cardinality(InDomainPositions)

(* after a bookkeeping there are super-droplets inside and outside *)
C3_Witness ==
  /\ Bookkept
  /\ InDomainPositions # {}
  /\ InDomainPositions # Positions(supers)

DropById(s, id) == s[CHOOSE k \in Positions(s) : s[k].id = id]

Ids == 0 .. (Len(initdata) - 1)

(* C7: once the gridbox index of a super-droplet is the outside-domain      *)
(* value, no step changes its gridbox index, coordinates, radius or         *)
(* multiplicity.                                                            *)
C7_OutsideDomainAbsorbing ==
  [][pc # "create" =>
       \A id \in Ids :
         DropById(supers, id).sdgbxindex = uintmax
           => DropById(supers', id) = DropById(supers, id)]_vars

(* a super-droplet is outside with the radius it was created with, while    *)
(* condensation has grown a super-droplet inside the domain                 *)
C7_Witness ==
  /\ pc = "advance"
  /\ t_mdl >= 1
  /\ \E j, k \in Positions(supers) :
       /\ supers[j].sdgbxindex = uintmax
       /\ supers[j].radius = 1
       /\ supers[k].sdgbxindex # uintmax
       /\ supers[k].radius > 1

SamePlaces ==
  /\ \A id \in Ids :
       /\ DropById(supers', id).sdgbxindex = DropById(supers, id).sdgbxindex
       /\ DropById(supers', id).coord3 = DropById(supers, id).coord3
       /\ DropById(supers', id).coord1 = DropById(supers, id).coord1
       /\ DropById(supers', id).coord2 = DropById(supers, id).coord2
  /\ spans' = spans

----------------------------------------------------------------------------
(* Properties of the timestepping (SpecSteps) *)

PhaseOrder == <<"receive", "micro", "motion", "send", "observe">>

PhaseRank(ph) == CHOOSE r \in 1 .. Len(PhaseOrder) : PhaseOrder[r] = ph

Ran(ph) == \E j \in 1 .. Len(phases) : phases[j] = ph

Passed(ph) ==     \* the driver is beyond the phase within the current tick
  \/ pc = "advance"
  \/ \E r \in 1 .. Len(PhaseOrder) : PhaseOrder[r] = pc /\ PhaseRank(ph) < r

ActiveIntervals ==
  {config.couplstep, config.microstep, config.obsstep}
    \cup (IF config.motion = "null" THEN {} ELSE {config.motionstep})

MultipleAtLeast(interval, t) ==
  CHOOSE m \in t .. (t + interval - 1) : m % interval = 0

MultipleAbove(interval, t) ==
  CHOOSE m \in (t + 1) .. (t + interval) : m % interval = 0

----------------------------------------------------------------------------
(* Properties of the gridbox-index functions (SpecUpdate) *)

InBounds(bounds, coord) == bounds[1] <= coord /\ coord < bounds[2]

DirectionRule(idx, bounds, coord, newidx, backward, forward) ==
  /\ InBounds(bounds, coord) => newidx = idx
  /\ coord < bounds[1] => newidx = backward
  /\ coord >= bounds[2] => newidx = forward

(* C4: in the update for one direction with gridbox bounds [L,U), a        *)
(* coordinate with L <= coord < U (coord = L included) keeps the index, a  *)
(* coordinate < L gives the backward neighbour and a coordinate >= U       *)
(* (coord = U included) gives the forward neighbour.                       *)
C4_DirectionUpdate ==
  /\ call.stage = "coord3" =>
       DirectionRule(call.idx, coord3bounds(call.idx), call.drop.coord3,
                     call.res.idx, coord3backward(call.idx),
                     coord3forward(call.idx))
  /\ call.stage = "coord1" =>
       DirectionRule(call.idx, coord1bounds(call.idx), call.drop.coord1,
                     call.res.idx, coord1backward(call.idx),
                     coord1forward(call.idx))
  /\ call.stage = "coord2" =>
       DirectionRule(call.idx, coord2bounds(call.idx), call.drop.coord2,
                     call.res.idx, coord2backward(call.idx),
                     coord2forward(call.idx))

(* a coordinate exactly on the upper bound moved the index forwards *)
C4_Witness ==
  /\ call.stage = "coord3"
  /\ call.idx # uintmax
  /\ call.drop.coord3 = coord3bounds(call.idx)[2]
  /\ call.res.idx = call.idx + 1

InBoundsAll(idx, drop) ==
  /\ InBounds(coord3bounds(idx), drop.coord3)
  /\ InBounds(coord1bounds(idx), drop.coord1)
  /\ InBounds(coord2bounds(idx), drop.coord2)

Neighbour(idx, bounds, coord, backward, forward) ==
  IF idx = uintmax \/ InBounds(bounds, coord) THEN idx
  ELSE IF coord < bounds[1] THEN backward
  ELSE forward

Neighbour3(idx, drop) ==
  Neighbour(idx, coord3bounds(idx), drop.coord3,
            coord3backward(idx), coord3forward(idx))

Neighbour1(idx, drop) ==
  Neighbour(idx, coord1bounds(idx), drop.coord1,
            coord1backward(idx), coord1forward(idx))

Neighbour2(idx, drop) ==
  Neighbour(idx, coord2bounds(idx), drop.coord2,
            coord2backward(idx), coord2forward(idx))

(* C22: update_superdrop_gbxindex takes the directions in the order 3, 1,   *)
(* 2, each with the bounds of the index the previous direction produced, so *)
(* a call that ends without error stores the neighbour in direction 2 of    *)
(* the neighbour in direction 1 of the neighbour in direction 3; the update *)
(* of a single direction does not write the stored index, which is written  *)
(* once, at the end, with the final index.                                  *)
C22_DiagonalNeighbourWrittenOnce ==
  /\ call.stage \in {"coord3", "coord1", "coord2"} =>
       call.res.drop.sdgbxindex = call.drop.sdgbxindex
  /\ (call.stage = "update" /\ ~call.res.err) =>
       call.res.drop.sdgbxindex =
         Neighbour2(Neighbour1(Neighbour3(call.idx, call.drop), call.drop),
                    call.drop)

(* the super-droplet left its gridbox in directions 3 and 1 at once and is  *)
(* stored in the gridbox that differs from its own in both directions       *)
C22_Witness ==
  /\ call.stage = "update"
  /\ ~call.res.err
  /\ call.idx \in Gbxs
  /\ Neighbour3(call.idx, call.drop) \in Gbxs \ {call.idx}
  /\ call.res.drop.sdgbxindex \in
       Gbxs \ {call.idx, Neighbour3(call.idx, call.drop),
               Neighbour1(call.idx, call.drop)}

DomainExtent3 == get_ndim(0) * GbxWidth

AtLowerFace3(idx) == idx # uintmax /\ idx % get_ndim(0) = 0

AtUpperFace3(idx) == idx # uintmax /\ idx % get_ndim(0) = get_ndim(0) - 1

CrossedBelow3 ==
  /\ config.periodic[1]
  /\ AtLowerFace3(call.idx)
  /\ call.drop.coord3 < coord3bounds(call.idx)[1]

CrossedAbove3 ==
  /\ config.periodic[1]
  /\ AtUpperFace3(call.idx)
  /\ call.drop.coord3 >= coord3bounds(call.idx)[2]

----------------------------------------------------------------------------
(* Properties of the collision-breakup events (SpecBreakup) *)

Enacted == call.stage = "event" /\ call.gamma # 0

TwinPair == call.before[1].eps = call.before[2].eps

(* C12: after any sequence of collision-breakup events the multiplicity of  *)
(* each super-droplet of the pair is at least 1.                            *)
C12_MultiplicityAtLeastOne ==
  call.stage \in {"pair", "event"} =>
    (call.drop1.eps >= 1 /\ call.drop2.eps >= 1)

(* the last of a sequence of events was enacted on a pair of equal          *)
(* multiplicities 1                                                         *)
C12_Witness ==
  /\ Enacted
  /\ call.events = MaxEvents
  /\ TwinPair
  /\ call.before[1].eps = 1

(* C13 as stated: an enacted event on a pair of equal multiplicities (the   *)
(* twin branch) increases the total multiplicity of the pair by exactly     *)
(* nfrags - 1.                                                              *)
C13_TwinAddsFragments ==
  (Enacted /\ TwinPair) =>
    call.drop1.eps + call.drop2.eps
      = call.before[1].eps + call.before[2].eps + call.nfrags - 1

Min2(a, b) == IF a <= b THEN a ELSE b

FractionDrawn == IF call.phi < call.prob % ProbDen THEN 1 ELSE 0

(* C14 as stated: gamma = floor(P) + (1 if phi < P - floor(P) else 0),      *)
(* clipped to floor(xi_a / xi_b).                                           *)
C14_GammaFloorClipped ==
  call.stage = "event" =>
    call.gamma = Min2((call.prob \div ProbDen) + FractionDrawn,
                      call.before[1].eps \div call.before[2].eps)

(* C14 amended: gamma = (1 if phi < P - floor(P) else 0), whatever floor(P) *)
(* is; it is 0 or 1 and so never above floor(xi_a / xi_b).                  *)
C14_GammaZeroOrOne ==
  call.stage = "event" =>
    /\ call.gamma = FractionDrawn
    /\ call.gamma \in {0, 1}
    /\ call.gamma <= call.before[1].eps \div call.before[2].eps

(* an event of probability 1 or more with gamma = 1, on a pair that could   *)
(* take two events                                                          *)
C14_Witness ==
  /\ call.stage = "event"
  /\ call.prob >= ProbDen
  /\ call.gamma = 1
  /\ call.before[1].eps \div call.before[2].eps >= 2

(* water mass of the real droplets of a super-droplet, in units of          *)
(* 4/3 pi rho_l of a unit radius                                            *)
WaterMass(drop) == drop.eps * (drop.radius * drop.radius * drop.radius + drop.m_sol)

(* C18: across any collision step (any pair, probability and draw) the      *)
(* total water mass of the pair, the sum of xi * (4/3 pi r^3 rho_l + m_sol),*)
(* is preserved.                                                            *)
C18_WaterMassPreserved ==
  call.stage = "event" =>
    WaterMass(call.drop1) + WaterMass(call.drop2)
      = WaterMass(call.before[1]) + WaterMass(call.before[2])

(* an enacted event on a pair of different multiplicities, radii and        *)
(* solute masses                                                            *)
C18_Witness ==
  /\ Enacted
  /\ ~TwinPair
  /\ call.before[1].radius # call.before[2].radius
  /\ call.before[1].m_sol # call.before[2].m_sol

----------------------------------------------------------------------------
(* Properties of the preparation of the coupled model (SpecPrepare) *)

(* C11: after the preparation of the coupled model and after every later    *)
(* phase, the radius of every super-droplet is at least the dry radius of   *)
(* its solute mass.                                                         *)
C11_RadiusAtLeastDry ==
  pc = "run" =>
    \A g \in DOMAIN call.gridboxes : \A k \in DOMAIN call.gridboxes[g].span :
      call.gridboxes[g].span[k].radius
        >= get_dry_radius(call.gridboxes[g].span[k])

(* a super-droplet created with a radius below its dry radius, after the    *)
(* preparation with a wet radius below the dry radius and the later phases  *)
C11_Witness ==
  /\ pc = "run"
  /\ call.nphases = MaxPhases
  /\ \E g \in DOMAIN call.gridboxes : \E k \in DOMAIN call.gridboxes[g].span :
       /\ call.created[g].span[k].radius < get_dry_radius(call.created[g].span[k])
       /\ call.gridboxes[g].span[k].radius = get_dry_radius(call.gridboxes[g].span[k])

----------------------------------------------------------------------------
(* Properties of the program's exit (SpecMain) *)

ExitCode(error) ==
  CASE error = "none" -> 0
    [] error = "configuration/IO" -> 1
    [] error = "initialisation" -> 2
    [] error = "runtime" -> 3

(* C17 as stated: the program ends with exit code 0 on success, 1 on a      *)
(* configuration/IO error (the configuration file argument being absent     *)
(* included), 2 on an initialisation error and 3 on a runtime error.        *)
C17_ExitCodes ==
  call.stage = "ended" =>
    /\ call.returned
    /\ call.code = ExitCode(call.error)

----------------------------------------------------------------------------
(* Properties of the shuffle and of the ids (SpecShuffle) *)

Perms(n) ==
  {p \in [1 .. n -> 1 .. n] : \A i, j \in 1 .. n : p[i] = p[j] => i = j}

Reordered(view, p) == [k \in 1 .. Len(view) |-> view[p[k]]]

(* C15: for a view of n super-droplets and every sequence of draws r_i in   *)
(* [0, i] the shuffled view holds exactly the super-droplets of the input   *)
(* (a reordering of it), different sequences of draws give different        *)
(* orders and every one of the n! orders is the result of some sequence;    *)
(* a view of 0 or 1 super-droplets is returned as it is. (No position       *)
(* outside the view is read: the model has no value there.)                 *)
C15_ShuffleIsBijection ==
  call.stage = "shuffled" =>
    LET n == Len(call.view)
        orders == {shuffle_supers(call.view, draws) : draws \in DrawSeqs(n)}
    IN /\ Len(supers) = n
       /\ \E p \in Perms(n) : supers = Reordered(call.view, p)
       /\ \A draws \in DrawSeqs(n) :
            draws # call.draws => shuffle_supers(call.view, draws) # supers
       /\ orders = {Reordered(call.view, p) : p \in Perms(n)}
       /\ Cardinality(orders) = Cardinality(Perms(n))
       /\ n <= 1 => supers = call.view

(* a view of the largest size whose last super-droplet went to the front *)
C15_Witness ==
  /\ call.stage = "shuffled"
  /\ Len(call.view) = MaxShuffle
  /\ supers[1] = call.view[MaxShuffle]
  /\ supers[MaxShuffle] # call.view[1]

(* C19: the super-droplets created by CreateSupers have pairwise distinct   *)
(* ids that increase with the order of creation, and no later operation     *)
(* (swap, shuffle, gridbox-index update) changes the id a super-droplet     *)
(* carries: the super-droplet with id i stays the one made from the i-th    *)
(* initial condition.                                                       *)
C19_IdsUniqueAndKept ==
  pc # "create" =>
    /\ \A kk \in 1 .. Len(initdata) :
         /\ call.created[kk].id = kk - 1
         /\ call.created[kk].radius = initdata[kk].radius
    /\ \A j, k \in 1 .. Len(call.created) :
         j < k => call.created[j].id < call.created[k].id
    /\ Len(supers) = Len(initdata)
    /\ \A j, k \in 1 .. Len(supers) : j # k => supers[j].id # supers[k].id
    /\ \A k \in 1 .. Len(supers) :
         /\ supers[k].id \in 0 .. (Len(initdata) - 1)
         /\ supers[k].radius = initdata[supers[k].id + 1].radius
         /\ supers[k].xi = initdata[supers[k].id + 1].xi
         /\ supers[k].coord1 = initdata[supers[k].id + 1].coord1
         /\ supers[k].coord2 = initdata[supers[k].id + 1].coord2

(* after the shuffle moved the first created super-droplet and the update   *)
(* changed a gridbox index                                                  *)
C19_Witness ==
  /\ pc = "end"
  /\ Len(supers) = MaxShuffle
  /\ supers[1].id # 0
  /\ \E k \in 1 .. Len(supers) :
       supers[k].sdgbxindex # initdata[supers[k].id + 1].sdgbxindex

----------------------------------------------------------------------------
(* Properties of the random draws of two runs (SpecSeed) *)

(* C16 as stated: two runs with the same seed and configuration make the    *)
(* same sequence of random draws; the generator state of a run is a         *)
(* function of the configured seed only.                                    *)
C16_SameSeedSameDraws ==
  call.stage = "runs" =>
    /\ \A j \in 1 .. MaxDraws :
         (j <= Len(call.runs[1].draws) /\ j <= Len(call.runs[2].draws))
           => call.runs[1].draws[j] = call.runs[2].draws[j]
    /\ (/\ call.runs[1].prepared
        /\ call.runs[2].prepared
        /\ Len(call.runs[1].draws) = Len(call.runs[2].draws))
         => call.runs[1].gen = call.runs[2].gen

----------------------------------------------------------------------------
(* Properties of the metadata of the mass-moment arrays (SpecStorage) *)

MetadataWritten == call.stage = "storage" /\ call.store.zarray # NoArray

----------------------------------------------------------------------------
(* Properties of Buffer::copy_to_buffer (SpecCopy) *)

Copied == call.stage = "buffer" /\ call.last.called

NCopied == Len(call.last.h_data) - Len(call.last.rem)

(* C23: copy_to_buffer copies min(get_space(), size of data) elements and   *)
(* returns the data not copied; after the call the remainder is empty or    *)
(* the buffer has no space left, and fill has grown by the number of        *)
(* elements copied.                                                         *)
C23_CopiesMinOfSpaceAndData ==
  Copied =>
    /\ NCopied = Min2(call.buffer.chunksize - call.last.fill,
                      Len(call.last.h_data))
    /\ call.last.rem =
         SubSeq(call.last.h_data, NCopied + 1, Len(call.last.h_data))
    /\ (call.last.rem = <<>> \/ get_space(call.buffer) = 0)
    /\ call.buffer.fill = call.last.fill + NCopied

(* a copy into a partly filled buffer that filled it and left data over *)
C23_Witness ==
  /\ Copied
  /\ call.last.fill > 0
  /\ NCopied > 0
  /\ call.last.rem # <<>>
  /\ get_space(call.buffer) = 0

(* C24 as stated: with f the fill before the call, buffer[f + i] is data[i] *)
(* for every 0 <= i < n_to_copy, and no element beyond the extent of the    *)
(* data is read.                                                            *)
C24_CopiesFirstElementsInOrder ==
  /\ pc # "crashed"
  /\ Copied =>
       \A i \in 0 .. (NCopied - 1) :
         call.buffer.buffer[call.last.fill + i + 1] = call.last.h_data[i + 1]

----------------------------------------------------------------------------
(* Properties of ZarrArrayViaBuffer (SpecArray) *)

ArrayWritten == call.stage = "array" /\ call.ncalls > 0 /\ pc # "crashed"

(* C25: after every write_array call, whatever the sizes of the data of     *)
(* this and of the earlier calls, the assertion at its end holds: no data   *)
(* is left over after the copy to the buffer, the writing of whole chunks   *)
(* and the second copy to the buffer.                                       *)
C25_NoLeftoverData == ArrayWritten => call.leftover = <<>>

(* a call on a partly filled buffer with data that fills it, holds a whole  *)
(* chunk more and a rest: a chunk from the buffer, a chunk from the data    *)
(* and a rest in the buffer                                                 *)
C25_Witness ==
  /\ ArrayWritten
  /\ call.ncalls = 2
  /\ call.from_buffer = call.buffer.chunksize
  /\ call.from_data = call.buffer.chunksize
  /\ call.buffer.fill > 0
  /\ call.leftover = <<>>

----------------------------------------------------------------------------
(* Properties of ContiguousRaggedSDStorage (SpecRagged) *)

(* the values of a chunk: its content without the empty places *)
ChunkValues(chunk) == SelectSeq(chunk.data, LAMBDA v : v # numeric_limits_max)

RECURSIVE StoredValues(_)
StoredValues(chunks) ==
  IF chunks = <<>> THEN <<>>
  ELSE ChunkValues(Head(chunks)) \o StoredValues(Tail(chunks))

NumberedInOrder(chunks, chunksize) ==
  \A k \in 1 .. Len(chunks) :
    /\ chunks[k].label = k - 1
    /\ Len(chunks[k].data) = chunksize
    /\ Len(ChunkValues(chunks[k])) <= chunksize

LiveRagged == call.stage = "ragged" /\ pc = "ragged"

LiveStorage == call.stage = "storage" /\ pc = "observing" /\ call.chunksize > 0

----------------------------------------------------------------------------
(* Properties of the combination of buffers objects (SpecBuffers) *)

(* C27 as stated: for every buffers object B, Null >> B and B >> Null       *)
(* return from copy2buffer and writechunk what B alone returns and write to *)
(* the store what B alone writes; with B = Null, Null >> Null behaves like  *)
(* Null.                                                                    *)
C27_NullIsIdentityOfCombination ==
  call.stage = "buffers" =>
    /\ call.left.ret = call.alone.ret
    /\ call.right.ret = call.alone.ret
    /\ call.left.store = call.alone.store
    /\ call.right.store = call.alone.store

----------------------------------------------------------------------------
(* Properties of the send-back to the thermodynamics solver (SpecCouple) *)

Sent == call.stage = "couple" /\ pc = "sent"

Reinitialised == Len(call.cvode.reinits) = Len(call.before.reinits) + 1

(* what the solver held at the last receive: the send leaves y as received  *)
(* or adds the delta to it                                                  *)
AtReceive == set_thermodynamics_from_cvodesolver(call.before.y)

ChangesSinceReceive ==
  [k \in 1 .. (gridN * NVARS) |->
     LET g == ((k - 1) \div NVARS) + 1 IN
     CASE k % NVARS = 2 -> call.gridboxes[g].temp - AtReceive[g].temp
       [] k % NVARS = 3 -> call.gridboxes[g].qvap - AtReceive[g].qvap
       [] k % NVARS = 0 -> call.gridboxes[g].qcond - AtReceive[g].qcond
       [] OTHER -> 0]

(* C28: the send-back reinitialises the solver exactly when coupling is     *)
(* enabled and some gridbox's temp, qvap or qcond differs from what was     *)
(* received; the delta passed holds those differences and 0 for every       *)
(* pressure; otherwise the solver is as it was before the send.             *)
C28_SendsChangesSinceReceive ==
  Sent =>
    IF call.doCouple /\ (\E k \in 1 .. (gridN * NVARS) : ChangesSinceReceive[k] # 0)
    THEN /\ Reinitialised
         /\ call.cvode.reinits[Len(call.cvode.reinits)] = ChangesSinceReceive
         /\ \A g \in 1 .. gridN :
              call.cvode.reinits[Len(call.cvode.reinits)][NVARS * (g - 1) + 1] = 0
    ELSE call.cvode = call.before

(* in the second coupled step only the second gridbox changed, and the      *)
(* solver was reinitialised for the second time                             *)
C28_Witness ==
  /\ Sent
  /\ call.steps = 1
  /\ Len(call.cvode.reinits) = 2
  /\ call.gridboxes[1] = AtReceive[1]
  /\ call.gridboxes[2] # AtReceive[2]

=============================================================================
